---------------------------- MODULE Spec2Model ----------------------------
(***************************************************************************)
(* A model of the rusty-pdp-11 emulator: the interrupt bus, the memory     *)
(* with its mapped cells, the CPU's trap sequence and run loop, and the    *)
(* DL11 console thread.                                                    *)
(***************************************************************************)
EXTENDS Integers, Sequences, FiniteSets, TLC

VARIABLES
    bus,        \* InterruptionBus: the four queues interruption_br4..br7
    sent,       \* history: per level, every vector interrupt() enqueued, in order
    delivered,  \* history: per level, every vector a poll returned, in order
    last_op,    \* history: the last bus operation, its arguments and its result
    memory,     \* Memory: bytes (the non-zero ones) and mapped (address -> cell)
    cells,      \* the mapped cells' own state, by cell name
    mem_op,     \* history: the last memory operation, its arguments and its result
    bound,      \* history: address -> the cell the latest map_word bound there
    unmapped_word, \* history: address -> the word its cell held when it was unmapped
    mem_steps,  \* the number of memory operations made so far
    cpu,        \* CPU: registers, waiting, and whether it panicked (ok)
    running,    \* the CPU's running flag, shared with the console thread
    cpu_op,     \* history: the last CPU step and the state it started from
    frames,     \* history: for each trap not yet returned from, PC, PSW, SP before it
    cpu_steps,  \* the number of CPU steps made so far
    cpu_pc,     \* where CPU::run stands: off, check, exec, poll, unbind, done, panicked
    tick_instr, \* the instruction the CPU executed in this iteration, "none" if it idled
    main_pc,    \* where Pdp11::run stands: new, run_cpu, returned
    tty_pc,     \* where the console thread stands in Dl11Tty::run
    stdin_pc,   \* where the keyboard thread stands in stdin_loop
    thread_active, \* Dl11Tty::run's thread_active_flag
    receiver_queue, \* Dl11Tty's receiver_queue
    stdout,     \* history: the bytes the console printed
    keys,       \* the number of keys typed so far
    announced,  \* history: a receiver interrupt was raised for the byte now in RBUF
    held,       \* per thread, the mutexes it holds, in the order it took them
    script      \* per thread, the lock and unlock calls left in its current operation

bus_vars == <<bus, sent, delivered, last_op>>

mem_vars == <<memory, cells, mem_op, bound, unmapped_word, mem_steps>>

cpu_vars == <<cpu, running, cpu_op, frames, cpu_steps>>

thread_vars == <<cpu_pc, tick_instr, main_pc, tty_pc, stdin_pc, thread_active,
                 receiver_queue, stdout, keys>>

vars == <<bus, sent, delivered, last_op, memory, cells, mem_op, bound, unmapped_word,
         mem_steps, cpu, running, cpu_op, frames, cpu_steps, cpu_pc, tick_instr,
         main_pc, tty_pc, stdin_pc, thread_active, receiver_queue, stdout, keys,
         announced, held, script>>

(***************************************************************************)
(* Option<T>                                                               *)
(***************************************************************************)
None == [some |-> FALSE, value |-> 0]

Some(x) == [some |-> TRUE, value |-> x]

(***************************************************************************)
(* utils/blocking_queue.rs: an mpsc channel behind a mutex.                *)
(***************************************************************************)
BlockingQueue_new == <<>>

\* a plausible slip: the element is put at the front of the queue
push_front(queue, e) == <<e>> \o queue

push(queue, e) == Append(queue, e)

\* pop: try_recv().ok(), the oldest element if there is one
pop(queue) ==
    IF queue = <<>>
    THEN [ret |-> None, queue |-> queue]
    ELSE [ret |-> Some(Head(queue)), queue |-> Tail(queue)]

(***************************************************************************)
(* cpu/interruptions.rs                                                    *)
(***************************************************************************)
Levels == {4, 5, 6, 7}

InterruptionBus_new ==
    [interruption_br4 |-> BlockingQueue_new,
     interruption_br5 |-> BlockingQueue_new,
     interruption_br6 |-> BlockingQueue_new,
     interruption_br7 |-> BlockingQueue_new]

\* the queue of the bus that serves bus request level L
QueueOf(b, L) ==
    CASE L = 4 -> b.interruption_br4
      [] L = 5 -> b.interruption_br5
      [] L = 6 -> b.interruption_br6
      [] L = 7 -> b.interruption_br7

\* interrupt(vector_address, priority); both assertions hold for 4..7
interrupt(b, vector_address, priority) ==
    CASE priority = 4 -> [b EXCEPT !.interruption_br4 = push(@, vector_address)]
      [] priority = 5 -> [b EXCEPT !.interruption_br5 = push(@, vector_address)]
      [] priority = 6 -> [b EXCEPT !.interruption_br6 = push(@, vector_address)]
      [] priority = 7 -> [b EXCEPT !.interruption_br7 = push(@, vector_address)]

\* a plausible slip: the early return for priority 7 is missing
next_interruption_no_p7_guard(b, priority) ==
    LET p7 == pop(b.interruption_br7)
        p6 == pop(b.interruption_br6)
        p5 == pop(b.interruption_br5)
        p4 == pop(b.interruption_br4)
    IN  IF p7.ret.some
        THEN [ret |-> p7.ret, bus |-> [b EXCEPT !.interruption_br7 = p7.queue]]
        ELSE IF priority >= 6 THEN [ret |-> None, bus |-> b]
        ELSE IF p6.ret.some
        THEN [ret |-> p6.ret, bus |-> [b EXCEPT !.interruption_br6 = p6.queue]]
        ELSE IF priority = 5 THEN [ret |-> None, bus |-> b]
        ELSE IF p5.ret.some
        THEN [ret |-> p5.ret, bus |-> [b EXCEPT !.interruption_br5 = p5.queue]]
        ELSE IF priority = 4 THEN [ret |-> None, bus |-> b]
        ELSE IF p4.ret.some
        THEN [ret |-> p4.ret, bus |-> [b EXCEPT !.interruption_br4 = p4.queue]]
        ELSE [ret |-> None, bus |-> b]

\* a plausible slip: the queues are tried lowest level first
next_interruption_lowest_first(b, priority) ==
    LET p7 == pop(b.interruption_br7)
        p6 == pop(b.interruption_br6)
        p5 == pop(b.interruption_br5)
        p4 == pop(b.interruption_br4)
    IN  IF priority = 7 THEN [ret |-> None, bus |-> b]
        ELSE IF priority < 4 /\ p4.ret.some
        THEN [ret |-> p4.ret, bus |-> [b EXCEPT !.interruption_br4 = p4.queue]]
        ELSE IF priority < 5 /\ p5.ret.some
        THEN [ret |-> p5.ret, bus |-> [b EXCEPT !.interruption_br5 = p5.queue]]
        ELSE IF priority < 6 /\ p6.ret.some
        THEN [ret |-> p6.ret, bus |-> [b EXCEPT !.interruption_br6 = p6.queue]]
        ELSE IF p7.ret.some
        THEN [ret |-> p7.ret, bus |-> [b EXCEPT !.interruption_br7 = p7.queue]]
        ELSE [ret |-> None, bus |-> b]

\* a plausible slip: the early return for priority 5 is missing
next_interruption_no_p5_guard(b, priority) ==
    LET p7 == pop(b.interruption_br7)
        p6 == pop(b.interruption_br6)
        p5 == pop(b.interruption_br5)
        p4 == pop(b.interruption_br4)
    IN  IF priority = 7 THEN [ret |-> None, bus |-> b]
        ELSE IF p7.ret.some
        THEN [ret |-> p7.ret, bus |-> [b EXCEPT !.interruption_br7 = p7.queue]]
        ELSE IF priority = 6 THEN [ret |-> None, bus |-> b]
        ELSE IF p6.ret.some
        THEN [ret |-> p6.ret, bus |-> [b EXCEPT !.interruption_br6 = p6.queue]]
        ELSE IF p5.ret.some
        THEN [ret |-> p5.ret, bus |-> [b EXCEPT !.interruption_br5 = p5.queue]]
        ELSE IF priority = 4 THEN [ret |-> None, bus |-> b]
        ELSE IF p4.ret.some
        THEN [ret |-> p4.ret, bus |-> [b EXCEPT !.interruption_br4 = p4.queue]]
        ELSE [ret |-> None, bus |-> b]

\* next_interruption_if_any(priority): the result and the bus it leaves
next_interruption_if_any(b, priority) ==
    LET p7 == pop(b.interruption_br7)
        p6 == pop(b.interruption_br6)
        p5 == pop(b.interruption_br5)
        p4 == pop(b.interruption_br4)
    IN  IF priority = 7 THEN [ret |-> None, bus |-> b]
        ELSE IF p7.ret.some
        THEN [ret |-> p7.ret, bus |-> [b EXCEPT !.interruption_br7 = p7.queue]]
        ELSE IF priority = 6 THEN [ret |-> None, bus |-> b]
        ELSE IF p6.ret.some
        THEN [ret |-> p6.ret, bus |-> [b EXCEPT !.interruption_br6 = p6.queue]]
        ELSE IF priority = 5 THEN [ret |-> None, bus |-> b]
        ELSE IF p5.ret.some
        THEN [ret |-> p5.ret, bus |-> [b EXCEPT !.interruption_br5 = p5.queue]]
        ELSE IF priority = 4 THEN [ret |-> None, bus |-> b]
        ELSE IF p4.ret.some
        THEN [ret |-> p4.ret, bus |-> [b EXCEPT !.interruption_br4 = p4.queue]]
        ELSE [ret |-> None, bus |-> b]

(***************************************************************************)
(* utils.rs: bytes and words                                               *)
(***************************************************************************)
Pow2(n) == 2 ^ n

\* Word::low / Word::high
low(w) == w % 256

high(w) == (w \div 256) % 256

\* a plausible slip: the halves are taken in the wrong order
make_word_swapped(lo, hi) == lo * 256 + hi

\* make_word(low, high): (high << 8) | low
make_word(lo, hi) == hi * 256 + lo

\* get_n_bit / set_n_bit on a word
get_n_bit(w, n) == (w \div Pow2(n)) % 2 = 1

set_n_bit(w, n, value) ==
    IF value
    THEN IF get_n_bit(w, n) THEN w ELSE w + Pow2(n)
    ELSE IF get_n_bit(w, n) THEN w - Pow2(n) ELSE w

(***************************************************************************)
(* mem.rs: the mapped cells.  A cell is [kind, word, has_new_data]; kind    *)
(* "simple" is SimpleMappedMemoryWord, kind "tty" is tty.rs's               *)
(* TtyMappedMemoryWord, whose reads clear and whose writes set              *)
(* has_new_data.  Each operation yields its result and the cell it leaves.  *)
(***************************************************************************)
SimpleMappedMemoryWord_new == [kind |-> "simple", word |-> 0, has_new_data |-> FALSE]

TtyMappedMemoryWord_new == [kind |-> "tty", word |-> 0, has_new_data |-> FALSE]

Cell_read_word(c) ==
    IF c.kind = "tty"
    THEN [ret |-> c.word, cell |-> [c EXCEPT !.has_new_data = FALSE]]
    ELSE [ret |-> c.word, cell |-> c]

Cell_write_word(c, word) ==
    IF c.kind = "tty"
    THEN [c EXCEPT !.word = word, !.has_new_data = TRUE]
    ELSE [c EXCEPT !.word = word]

\* MappedMemoryWord::read_byte(high)
Cell_read_byte(c, hi) ==
    LET r == Cell_read_word(c)
    IN  [ret |-> IF hi THEN high(r.ret) ELSE low(r.ret), cell |-> r.cell]

\* MappedMemoryWord::write_byte(byte, high)
Cell_write_byte(c, byte, hi) ==
    LET r == Cell_read_word(c)
        new_word == IF hi THEN make_word(low(r.ret), byte)
                          ELSE make_word(byte, high(r.ret))
    IN  Cell_write_word(r.cell, new_word)

(***************************************************************************)
(* mem.rs: Memory.  A store m is [bytes, mapped, cells]: the Memory's two   *)
(* fields and the cells its bindings point to.  bytes keeps the non-zero    *)
(* bytes only (the array starts all zero).  Every operation yields          *)
(* [ok, ret, m]; ok = FALSE is a failed assertion (a panic).                *)
(***************************************************************************)
MEM_SIZE == 131072

ByteAt(bytes, a) == IF a \in DOMAIN bytes THEN bytes[a] ELSE 0

SetByte(bytes, a, v) ==
    IF v = 0
    THEN [x \in DOMAIN bytes \ {a} |-> bytes[x]]
    ELSE [x \in DOMAIN bytes \cup {a} |-> IF x = a THEN v ELSE bytes[x]]

Memory_new == [bytes |-> << >>, mapped |-> << >>]

Panic(m) == [ok |-> FALSE, ret |-> 0, m |-> m]

Done(m, ret) == [ok |-> TRUE, ret |-> ret, m |-> m]

validate_address(address) == address < MEM_SIZE - 1

validate_word_address(address) == validate_address(address) /\ address % 2 = 0

next_word_address(address) == address + 2

next_byte_address(address) == address + 1

\* get_mapped / get_mapped_mut: the lookup uses the address as given
get_mapped(m, address) ==
    IF address \in DOMAIN m.mapped THEN Some(m.mapped[address]) ELSE None

\* address & 0xFFFE
mapped_address_of(address) == (address % 65536) - (address % 2)

Memory_read_byte(m, address) ==
    IF ~validate_address(address) THEN Panic(m)
    ELSE LET mp == get_mapped(m, address)
         IN  IF mp.some
             THEN LET r == Cell_read_byte(m.cells[mp.value],
                                          address # mapped_address_of(address))
                  IN  Done([m EXCEPT !.cells[mp.value] = r.cell], r.ret)
             ELSE Done(m, ByteAt(m.bytes, address))

Memory_write_byte(m, address, data) ==
    IF ~validate_address(address) THEN Panic(m)
    ELSE LET m1 == [m EXCEPT !.bytes = SetByte(@, address, data)]
             mp == get_mapped(m1, address)
         IN  IF mp.some
             THEN Done([m1 EXCEPT !.cells[mp.value] =
                           Cell_write_byte(@, data, address # mapped_address_of(address))],
                       next_byte_address(address))
             ELSE Done(m1, next_byte_address(address))

\* read_word on a mapped address: the cell's word
read_mapped_word(m, c) ==
    Done([m EXCEPT !.cells[c] = Cell_read_word(@).cell], Cell_read_word(m.cells[c]).ret)

\* read_word, last step: the two bytes joined
read_word_join(l, high_byte) ==
    IF ~l.ok THEN Panic(l.m) ELSE Done(l.m, make_word(l.ret, high_byte))

\* read_word, second step: h is the result of reading the high byte
read_word_low(h, address) ==
    IF ~h.ok THEN Panic(h.m)
    ELSE read_word_join(Memory_read_byte(h.m, address), h.ret)

Memory_read_word(m, address) ==
    IF ~validate_word_address(address) THEN Panic(m)
    ELSE IF get_mapped(m, address).some
         THEN read_mapped_word(m, get_mapped(m, address).value)
         ELSE read_word_low(Memory_read_byte(m, address + 1), address)

\* write_word, last step: w2 is the result of writing the high byte
write_word_mapped(w2, address, word) ==
    IF ~w2.ok THEN Panic(w2.m)
    ELSE IF get_mapped(w2.m, address).some
         THEN Done([w2.m EXCEPT !.cells[get_mapped(w2.m, address).value] =
                       Cell_write_word(@, word)],
                   next_word_address(address))
         ELSE Done(w2.m, next_word_address(address))

\* write_word, second step: w1 is the result of writing the low byte
write_word_high(w1, address, word) ==
    IF ~w1.ok THEN Panic(w1.m)
    ELSE write_word_mapped(Memory_write_byte(w1.m, address + 1, high(word)),
                           address, word)

Memory_write_word(m, address, word) ==
    IF ~validate_word_address(address) THEN Panic(m)
    ELSE write_word_high(Memory_write_byte(m, address, low(word)), address, word)

\* a plausible slip: an existing binding is kept (insert only if vacant)
map_word_keep_first(m, address, cell) ==
    IF ~validate_word_address(address) THEN Panic(m)
    ELSE IF address \in DOMAIN m.mapped THEN Done(m, next_word_address(address))
    ELSE Done([m EXCEPT !.mapped =
                  [x \in DOMAIN m.mapped \cup {address} |->
                      IF x = address THEN cell ELSE m.mapped[x]]],
              next_word_address(address))

\* map_word: HashMap::insert replaces the binding of the address
map_word(m, address, cell) ==
    IF ~validate_word_address(address) THEN Panic(m)
    ELSE Done([m EXCEPT !.mapped =
                  [x \in DOMAIN m.mapped \cup {address} |->
                      IF x = address THEN cell ELSE m.mapped[x]]],
              next_word_address(address))

\* a plausible slip: the binding is removed without writing the value back
unmap_word_no_write_back(m, address) ==
    IF ~validate_word_address(address) THEN Panic(m)
    ELSE Done([m EXCEPT !.mapped = [x \in DOMAIN m.mapped \ {address} |-> m.mapped[x]]],
              next_word_address(address))

\* unmap_word, last step: w is the result of writing the value back
unmap_word_done(w, address) ==
    IF ~w.ok THEN Panic(w.m) ELSE Done(w.m, next_word_address(address))

\* unmap_word, second step: v is the result of reading the value
unmap_word_remove(v, address) ==
    IF ~v.ok THEN Panic(v.m)
    ELSE unmap_word_done(
             Memory_write_word(
                 [v.m EXCEPT !.mapped = [x \in DOMAIN v.m.mapped \ {address} |->
                                            v.m.mapped[x]]],
                 address, v.ret),
             address)

\* unmap_word: read the value, remove the binding, write the value back
unmap_word(m, address) ==
    IF ~validate_word_address(address) THEN Panic(m)
    ELSE unmap_word_remove(Memory_read_word(m, address), address)

(***************************************************************************)
(* cpu.rs, cpu/commands.rs, cpu/interpreter.rs: the CPU.  A machine K is    *)
(* [registers, waiting, running, overflow_checks, m, ok]: the CPU's         *)
(* fields, the store m it works on, and ok = FALSE once it panicked.  The   *)
(* PSW is the cell "status" of the store.  overflow_checks says whether     *)
(* the build panics on integer overflow (a debug build) or wraps (a         *)
(* release build).                                                          *)
(***************************************************************************)
FIRST_COMMAND == 512

REG_COUNT == 8

STACK_POINTER_INDEX == 6

PROGRAM_COUNTER_INDEX == 7

WORD_SIZE_BYTES == 2

TRAP_FLAG_INDEX == 4

\* the address the PSW is mirrored at
PSW_ADDRESS == 65534

\* the reset value of the stack pointer
FIRST_STACK == 512

\* the vector of BPT and of the T-bit trap, and the vector of IOT
BPT_VECTOR == 12

IOT_VECTOR == 16

WordModulus == 65536

CpuPanic(K) == [K EXCEPT !.ok = FALSE]

get_word_from_reg(K, reg_index) == K.registers[reg_index]

set_word_reg(K, reg_index, value) == [K EXCEPT !.registers[reg_index] = value]

\* self.registers[i] += by, on u16
increment_reg(K, reg_index, by) ==
    LET sum == K.registers[reg_index] + by
    IN  IF sum >= WordModulus /\ K.overflow_checks THEN CpuPanic(K)
        ELSE [K EXCEPT !.registers[reg_index] = sum % WordModulus]

\* self.registers[i] -= by, on u16
decrement_reg(K, reg_index, by) ==
    LET diff == K.registers[reg_index] - by
    IN  IF diff < 0 /\ K.overflow_checks THEN CpuPanic(K)
        ELSE [K EXCEPT !.registers[reg_index] = diff % WordModulus]

\* get_and_increment: the value before, and the machine after
get_and_increment(K, reg_index, by) ==
    [ret |-> get_word_from_reg(K, reg_index), K |-> increment_reg(K, reg_index, by)]

\* the register's value in K1, and K1
reg_and_machine(K1, reg_index) == [ret |-> get_word_from_reg(K1, reg_index), K |-> K1]

\* decrement_and_get: the value after, and the machine after
decrement_and_get(K, reg_index, by) ==
    reg_and_machine(decrement_reg(K, reg_index, by), reg_index)

\* the PSW: the word of the CPU's status cell
status_word(K) == K.m.cells["status"].word

set_status_word(K, word) ==
    [K EXCEPT !.m.cells["status"] = Cell_write_word(@, word)]

\* the processor priority: PSW bits 5-7
priority(K) == (status_word(K) \div 32) % 8

trap_flag(K) == get_n_bit(status_word(K), TRAP_FLAG_INDEX)

\* a memory result folded into the machine
WithMemory(K, r) == IF r.ok THEN [K EXCEPT !.m = r.m] ELSE CpuPanic([K EXCEPT !.m = r.m])

\* push, second step: d is the result of decrementing SP
push_stack_write(d, value) ==
    IF ~d.K.ok THEN d.K
    ELSE WithMemory(d.K, Memory_write_word(d.K.m, d.ret, value))

\* push that leaves SP where it was
push_stack_no_decrement(K, value) ==
    IF ~K.ok THEN K
    ELSE push_stack_write(reg_and_machine(K, STACK_POINTER_INDEX), value)

\* push: SP <- SP - 2; M[SP] <- value.  A machine that panicked does nothing.
push_stack(K, value) ==
    IF ~K.ok THEN K
    ELSE push_stack_write(decrement_and_get(K, STACK_POINTER_INDEX, WORD_SIZE_BYTES),
                          value)

\* pop, last step: r is the result of reading M[SP]
pop_stack_result(K, r) == [ret |-> r.ret, K |-> WithMemory(K, r)]

\* pop, second step: g is the old SP and the machine with SP incremented
pop_stack_read(g) ==
    IF ~g.K.ok THEN [ret |-> 0, K |-> g.K]
    ELSE pop_stack_result(g.K, Memory_read_word(g.K.m, g.ret))

\* pop: value <- M[SP]; SP <- SP + 2.  A machine that panicked does nothing.
pop_stack(K) ==
    IF ~K.ok THEN [ret |-> 0, K |-> K]
    ELSE pop_stack_read(get_and_increment(K, STACK_POINTER_INDEX, WORD_SIZE_BYTES))

\* perform_trap, last step: the PC and the PSW are loaded
trap_set(K4, new_pc, new_psw) ==
    IF ~K4.ok THEN K4
    ELSE set_status_word(set_word_reg(K4, PROGRAM_COUNTER_INDEX, new_pc), new_psw)

\* perform_trap, fourth step: the new PSW is read from trap_address + 2
trap_read_psw(K3, new_pc, trap_address) ==
    IF ~K3.ok THEN K3
    ELSE trap_set(WithMemory(K3, Memory_read_word(K3.m, trap_address + 2)),
                  new_pc, Memory_read_word(K3.m, trap_address + 2).ret)

\* perform_trap, third step: the new PC is read from trap_address
trap_read_pc(K2, trap_address) ==
    IF ~K2.ok THEN K2
    ELSE trap_read_psw(WithMemory(K2, Memory_read_word(K2.m, trap_address)),
                       Memory_read_word(K2.m, trap_address).ret, trap_address)

\* a plausible slip: the PC is pushed before the PSW
perform_trap_pc_first(K, trap_address) ==
    trap_read_pc(push_stack(push_stack(K, get_word_from_reg(K, PROGRAM_COUNTER_INDEX)),
                            status_word(K)),
                 trap_address)

\* perform_trap: push PSW, push PC, then load PC and PSW from the vector
perform_trap(K, trap_address) ==
    trap_read_pc(push_stack(push_stack(K, status_word(K)),
                            get_word_from_reg(K, PROGRAM_COUNTER_INDEX)),
                 trap_address)

do_nop(K, command) == K

\* a plausible slip: the running flag is left set
do_halt_keeps_running(K, command) == K

do_halt(K, command) == [K EXCEPT !.running = FALSE]

\* a plausible slip: the waiting flag is not set
do_wait_no_flag(K, command) == K

do_wait(K, command) == [K EXCEPT !.waiting = TRUE]

do_panic(K, command) == CpuPanic(K)

\* do_rti, last step: p2 is the popped PSW
rti_set_psw(p2) ==
    IF ~p2.K.ok THEN p2.K ELSE set_status_word(p2.K, p2.ret)

\* do_rti, second step: p1 is the popped PC
rti_set_pc(p1) ==
    IF ~p1.K.ok THEN p1.K
    ELSE rti_set_psw(pop_stack(set_word_reg(p1.K, PROGRAM_COUNTER_INDEX, p1.ret)))

\* a plausible slip: the popped PC is dropped, only the PSW is loaded
do_rti_drop_pc(K, command) == rti_set_psw(pop_stack(pop_stack(K).K))

\* do_rti: pop the PC, then pop the PSW
do_rti(K, command) == rti_set_pc(pop_stack(K))

do_rtt(K, command) == do_rti(K, command)

do_bpt(K, command) == perform_trap(K, BPT_VECTOR)

do_iot(K, command) == perform_trap(K, IOT_VECTOR)

(***************************************************************************)
(* cpu/addressing.rs: the operand evaluator.  An operand is a 6-bit field, *)
(* mode * 8 + register.  Each get_..._address yields [ret, K]: the address *)
(* and the machine it leaves (a register stepped, an extension word        *)
(* consumed).                                                              *)
(***************************************************************************)
register_from_operand(operand) == operand % 8

\* From<Byte> for AddressingMode; a byte outside the enum panics
AddressingMode_from(byte) ==
    CASE byte = 0 -> "Register"
      [] byte = 1 -> "RegisterDeferred"
      [] byte = 2 -> "Autoicrement"
      [] byte = 3 -> "AutoicrementDeferred"
      [] byte = 4 -> "Autodecrement"
      [] byte = 5 -> "AutodecrementDeferred"
      [] byte = 6 -> "Index"
      [] byte = 7 -> "IndexDeferred"
      [] byte = 23 -> "Immediate"
      [] byte = 31 -> "Absolute"
      [] byte = 55 -> "Relative"
      [] byte = 63 -> "RelativeDeferred"
      [] OTHER -> "Unknown"

\* mode = operand >> 3 & 7; with register 7 the byte is mode << 3 | 7
adressing_from_operand(operand) ==
    IF register_from_operand(operand) = PROGRAM_COUNTER_INDEX
    THEN AddressingMode_from(((operand \div 8) % 8) * 8 + 7)
    ELSE AddressingMode_from((operand \div 8) % 8)

\* memory.read_word(g.ret) on the machine g.K: the word, and the machine
read_word_at(g) ==
    IF ~g.K.ok THEN [ret |-> 0, K |-> g.K]
    ELSE [ret |-> Memory_read_word(g.K.m, g.ret).ret,
          K |-> WithMemory(g.K, Memory_read_word(g.K.m, g.ret))]

get_register_deferred_address(K, reg_index, increment_by) ==
    reg_and_machine(K, reg_index)

get_autoincrement_address(K, reg_index, increment_by) ==
    get_and_increment(K, reg_index, increment_by)

get_autoincrement_deferred_address(K, reg_index, increment_by) ==
    read_word_at(get_and_increment(K, reg_index, WORD_SIZE_BYTES))

get_autodecrement_address(K, reg_index, increment_by) ==
    decrement_and_get(K, reg_index, increment_by)

get_autodecrement_deferred_address(K, reg_index, increment_by) ==
    read_word_at(decrement_and_get(K, reg_index, WORD_SIZE_BYTES))

\* n + self.get_word_from_reg(reg_index), on u16; n is the word n.ret
index_sum(n, reg_index) ==
    IF ~n.K.ok THEN n
    ELSE IF n.ret + get_word_from_reg(n.K, reg_index) >= WordModulus
            /\ n.K.overflow_checks
    THEN [ret |-> 0, K |-> CpuPanic(n.K)]
    ELSE [ret |-> (n.ret + get_word_from_reg(n.K, reg_index)) % WordModulus, K |-> n.K]

\* the extension word at PC is read, PC advances, the register is added
get_index_address(K, reg_index, increment_by) ==
    index_sum(read_word_at(get_and_increment(K, PROGRAM_COUNTER_INDEX, WORD_SIZE_BYTES)),
              reg_index)

get_index_deferred_address(K, reg_index, increment_by) ==
    read_word_at(get_index_address(K, reg_index, increment_by))

get_immediate_address(K, reg_index, increment_by) ==
    get_and_increment(K, reg_index, WORD_SIZE_BYTES)

\* the match of get_/put_operand_value_with_addressing, the modes other
\* than Register: the get_..._address of the mode
operand_address(K, reg_index, addressing, increment_by) ==
    CASE addressing = "RegisterDeferred" ->
             get_register_deferred_address(K, reg_index, increment_by)
      [] addressing = "Autoicrement" ->
             get_autoincrement_address(K, reg_index, increment_by)
      [] addressing \in {"AutoicrementDeferred", "Absolute"} ->
             get_autoincrement_deferred_address(K, reg_index, increment_by)
      [] addressing = "Autodecrement" ->
             get_autodecrement_address(K, reg_index, increment_by)
      [] addressing = "AutodecrementDeferred" ->
             get_autodecrement_deferred_address(K, reg_index, increment_by)
      [] addressing \in {"Index", "Relative"} ->
             get_index_address(K, reg_index, increment_by)
      [] addressing \in {"IndexDeferred", "RelativeDeferred"} ->
             get_index_deferred_address(K, reg_index, increment_by)
      [] addressing = "Immediate" ->
             get_immediate_address(K, reg_index, increment_by)
      [] OTHER -> [ret |-> 0, K |-> CpuPanic(K)]

\* get_word_by_operand: the operand's word, and the machine
get_word_by_operand(K, operand) ==
    IF ~K.ok THEN [ret |-> 0, K |-> K]
    ELSE IF adressing_from_operand(operand) = "Register"
    THEN reg_and_machine(K, register_from_operand(operand))
    ELSE read_word_at(operand_address(K, register_from_operand(operand),
                                      adressing_from_operand(operand), WORD_SIZE_BYTES))

\* memory.write_word(g.ret, word) on the machine g.K
write_word_at(g, word) ==
    IF ~g.K.ok THEN g.K ELSE WithMemory(g.K, Memory_write_word(g.K.m, g.ret, word))

put_word_by_operand(K, operand, word) ==
    IF ~K.ok THEN K
    ELSE IF adressing_from_operand(operand) = "Register"
    THEN set_word_reg(K, register_from_operand(operand), word)
    ELSE write_word_at(operand_address(K, register_from_operand(operand),
                                       adressing_from_operand(operand), WORD_SIZE_BYTES),
                       word)

\* the effective address of an operand (JMP, JSR); register mode has none
get_operand_address(K, operand) ==
    operand_address(K, register_from_operand(operand), adressing_from_operand(operand),
                    WORD_SIZE_BYTES)

(***************************************************************************)
(* The flags: PSW bits 0 to 3.                                             *)
(***************************************************************************)
CARRY_FLAG_INDEX == 0

OVERFLOW_FLAG_INDEX == 1

ZERO_FLAG_INDEX == 2

NEGATIVE_FLAG_INDEX == 3

\* Number::is_negative on a word
is_negative(word) == word >= 32768

zero_flag(K) == get_n_bit(status_word(K), ZERO_FLAG_INDEX)

\* V cleared, Z and N from the result, C left alone
update_status_flags_bitwise(K, result) ==
    IF ~K.ok THEN K
    ELSE set_status_word(K,
            set_n_bit(set_n_bit(set_n_bit(status_word(K), OVERFLOW_FLAG_INDEX, FALSE),
                                ZERO_FLAG_INDEX, result = 0),
                      NEGATIVE_FLAG_INDEX, is_negative(result)))

\* C, V, Z and N
update_status_flags(K, result, carry_bit, overflow_bit) ==
    IF ~K.ok THEN K
    ELSE set_status_word(K,
            set_n_bit(set_n_bit(set_n_bit(set_n_bit(status_word(K), CARRY_FLAG_INDEX,
                                                    carry_bit),
                                          OVERFLOW_FLAG_INDEX, overflow_bit),
                                ZERO_FLAG_INDEX, result = 0),
                      NEGATIVE_FLAG_INDEX, is_negative(result)))

\* the sign of the result differs from the sign of the value before
has_signed_overflow(before, result) == is_negative(before) # is_negative(result)

\* a carry test that misses the sum 0x10000
has_carry_above(long) == long > WordModulus

\* (word & 0xFFFF0000) > 0 on a 32-bit sum
has_carry(long) == long >= WordModulus

\* a | b
RECURSIVE bit_or(_, _)
bit_or(a, b) ==
    IF a = 0 THEN b
    ELSE IF b = 0 THEN a
    ELSE (IF a % 2 = 1 \/ b % 2 = 1 THEN 1 ELSE 0) + 2 * bit_or(a \div 2, b \div 2)

(***************************************************************************)
(* cpu/commands.rs: the fields of a command word; cpu/interpreter.rs: the  *)
(* instructions with operands.                                             *)
(***************************************************************************)
dst_operand(command) == command % 64

src_operand(command) == (command \div 64) % 64

reg_operand(command) == (command \div 64) % 8

low_reg_operand(command) == command % 8

adr_operand(command) == dst_operand(command)

\* the low byte, sign-extended to a word, shifted left by one on 16 bits
branch_offset(command) ==
    ((IF low(command) >= 128 THEN 65280 + low(command) ELSE low(command)) * 2)
        % WordModulus

\* RTS, last step: p is the result of the pop
rts_set_reg(p, reg) == IF ~p.K.ok THEN p.K ELSE set_word_reg(p.K, reg, p.ret)

\* RTS reg: PC <- reg; reg <- pop
do_rts(K, command) ==
    rts_set_reg(pop_stack(set_word_reg(K, PROGRAM_COUNTER_INDEX,
                                       get_word_from_reg(K, low_reg_operand(command)))),
                low_reg_operand(command))

\* JSR, last step: reg <- PC; PC <- address
jsr_set(K2, reg, address) ==
    IF ~K2.ok THEN K2
    ELSE set_word_reg(set_word_reg(K2, reg, get_word_from_reg(K2, PROGRAM_COUNTER_INDEX)),
                      PROGRAM_COUNTER_INDEX, address % WordModulus)

\* JSR, second step: a is the destination's address, reg_value the
\* register's value read before the address was computed
jsr_push(a, reg, reg_value) ==
    IF ~a.K.ok THEN a.K ELSE jsr_set(push_stack(a.K, reg_value), reg, a.ret)

\* JSR reg, dst: the register is read, then the destination's address is
\* computed; the register's value is pushed; reg <- PC; PC <- address
do_jsr(K, command) ==
    jsr_push(get_operand_address(K, adr_operand(command)), reg_operand(command),
             get_word_from_reg(K, reg_operand(command)))

\* TST, second step: the flags from the operand read
tst_flags(g) == update_status_flags(g.K, g.ret, FALSE, FALSE)

do_tst(K, command) == tst_flags(get_word_by_operand(K, adr_operand(command)))

\* INC, second step: g is the operand read; the operand is evaluated a
\* second time for the store
inc_put(g, operand) ==
    update_status_flags(put_word_by_operand(g.K, operand, (g.ret + 1) % WordModulus),
                        (g.ret + 1) % WordModulus, has_carry(g.ret + 1),
                        has_signed_overflow(g.ret, (g.ret + 1) % WordModulus))

do_inc(K, command) ==
    inc_put(get_word_by_operand(K, adr_operand(command)), adr_operand(command))

\* MOV, second step: g is the source read
mov_put(g, dst) ==
    update_status_flags_bitwise(put_word_by_operand(g.K, dst, g.ret), g.ret)

do_mov(K, command) ==
    mov_put(get_word_by_operand(K, src_operand(command)), dst_operand(command))

\* ADD, last step: s is the source read, after the destination dst_value;
\* the destination is evaluated a second time for the store
add_put(s, dst, dst_value) ==
    update_status_flags(put_word_by_operand(s.K, dst, (dst_value + s.ret) % WordModulus),
                        (dst_value + s.ret) % WordModulus, has_carry(dst_value + s.ret),
                        has_signed_overflow(dst_value, (dst_value + s.ret) % WordModulus))

\* ADD, second step: d is the destination read
add_src(d, command) ==
    add_put(get_word_by_operand(d.K, src_operand(command)), dst_operand(command), d.ret)

do_add(K, command) == add_src(get_word_by_operand(K, dst_operand(command)), command)

\* BIS, last step: as ADD, with | for + and the bitwise flags
bis_put(s, dst, dst_value) ==
    update_status_flags_bitwise(put_word_by_operand(s.K, dst, bit_or(dst_value, s.ret)),
                                bit_or(dst_value, s.ret))

bis_src(d, command) ==
    bis_put(get_word_by_operand(d.K, src_operand(command)), dst_operand(command), d.ret)

do_bis(K, command) == bis_src(get_word_by_operand(K, dst_operand(command)), command)

\* BR: PC <- PC + offset, on u16
do_br(K, command) ==
    IF get_word_from_reg(K, PROGRAM_COUNTER_INDEX) + branch_offset(command) >= WordModulus
       /\ K.overflow_checks
    THEN CpuPanic(K)
    ELSE set_word_reg(K, PROGRAM_COUNTER_INDEX,
                      (get_word_from_reg(K, PROGRAM_COUNTER_INDEX) + branch_offset(command))
                          % WordModulus)

do_bne(K, command) == IF ~zero_flag(K) THEN do_br(K, command) ELSE K

do_beq(K, command) == IF zero_flag(K) THEN do_br(K, command) ELSE K

carry_flag(K) == get_n_bit(status_word(K), CARRY_FLAG_INDEX)

\* BHIS/BCC: the branch is taken when C is clear
do_bcc(K, command) == IF ~carry_flag(K) THEN do_br(K, command) ELSE K

\* BCS/BLO: the same test as do_bcc
do_bcs(K, command) == IF ~carry_flag(K) THEN do_br(K, command) ELSE K

do_trap(K, command) == perform_trap(K, 24)

do_emt(K, command) == perform_trap(K, 28)

update_carry_flag(K, carry_bit) ==
    set_status_word(K, set_n_bit(status_word(K), CARRY_FLAG_INDEX, carry_bit))

update_overflow_flag(K, overflow_bit) ==
    set_status_word(K, set_n_bit(status_word(K), OVERFLOW_FLAG_INDEX, overflow_bit))

\* has_carry on the 32-bit difference of two words: a negative difference
\* wraps to a long word whose high word is 0xFFFF
has_carry_of_difference(diff) == IF diff < 0 THEN TRUE ELSE has_carry(diff)

\* SUB, last step: s is the source read, after the destination dst_value;
\* dst - src is computed on u32; the destination is evaluated a second
\* time for the store
sub_put(s, dst, dst_value) ==
    IF ~s.K.ok THEN s.K
    ELSE IF dst_value < s.ret /\ s.K.overflow_checks THEN CpuPanic(s.K)
    ELSE update_status_flags(
            put_word_by_operand(s.K, dst, (dst_value - s.ret) % WordModulus),
            (dst_value - s.ret) % WordModulus,
            ~has_carry_of_difference(dst_value - s.ret),
            has_signed_overflow(dst_value, (dst_value - s.ret) % WordModulus))

\* SUB, second step: d is the destination read
sub_src(d, command) ==
    sub_put(get_word_by_operand(d.K, src_operand(command)), dst_operand(command), d.ret)

do_sub(K, command) == sub_src(get_word_by_operand(K, dst_operand(command)), command)

\* (high << 16) | low
long_word(lo, hi) == hi * WordModulus + lo

\* the register pair of DIV starts at an even register
assert_even_reg(reg) == reg % 2 = 0

\* DIV, the division: the remainder to the odd register, the quotient to
\* the even one, the flags from the quotient's low word
div_store(K, dst, dst_value, src_value) ==
    update_status_flags(
        set_word_reg(set_word_reg(K, dst + 1, (dst_value % src_value) % WordModulus),
                     dst, (dst_value \div src_value) % WordModulus),
        (dst_value \div src_value) % WordModulus,
        has_carry(dst_value \div src_value), FALSE)

\* a DIV whose zero divisor sets C only
div_src_carry_only(s, dst, lo, hi) ==
    IF ~s.K.ok THEN s.K
    ELSE IF s.ret = 0 THEN update_carry_flag(s.K, TRUE)
    ELSE div_store(s.K, dst, long_word(lo, hi), s.ret)

\* DIV, second step: s is the source read, lo and hi the registers read
\* before it; a zero divisor sets C and V and returns
div_src(s, dst, lo, hi) ==
    IF ~s.K.ok THEN s.K
    ELSE IF s.ret = 0 THEN update_overflow_flag(update_carry_flag(s.K, TRUE), TRUE)
    ELSE div_store(s.K, dst, long_word(lo, hi), s.ret)

\* DIV src, Rn: (Rn+1 : Rn) / src on u32
do_div(K, command) ==
    IF ~assert_even_reg(reg_operand(command)) THEN CpuPanic(K)
    ELSE div_src(get_word_by_operand(K, adr_operand(command)), reg_operand(command),
                 get_word_from_reg(K, reg_operand(command)),
                 get_word_from_reg(K, reg_operand(command) + 1))

\* a SOB that branches whatever the register has become
sob_branch_always(d, command) ==
    IF ~d.K.ok THEN d.K
    ELSE set_word_reg(d.K, PROGRAM_COUNTER_INDEX,
                      (get_word_from_reg(d.K, PROGRAM_COUNTER_INDEX)
                          - 2 * adr_operand(command)) % WordModulus)

\* SOB, second step: d is the register decremented; PC <- PC - 2 * offset
\* on u16 when the register is not zero
sob_branch(d, command) ==
    IF ~d.K.ok \/ d.ret = 0 THEN d.K
    ELSE IF get_word_from_reg(d.K, PROGRAM_COUNTER_INDEX) < 2 * adr_operand(command)
            /\ d.K.overflow_checks
    THEN CpuPanic(d.K)
    ELSE set_word_reg(d.K, PROGRAM_COUNTER_INDEX,
                      (get_word_from_reg(d.K, PROGRAM_COUNTER_INDEX)
                          - 2 * adr_operand(command)) % WordModulus)

\* SOB Rn, offset: Rn <- Rn - 1 on u16; the branch back when Rn is not zero
do_sob(K, command) ==
    sob_branch(decrement_and_get(K, reg_operand(command), 1), command)

MARK_POINTER_INDEX == 5

\* MARK, last step: p is the result of the pop
mark_set(p) == IF ~p.K.ok THEN p.K ELSE set_word_reg(p.K, MARK_POINTER_INDEX, p.ret)

\* MARK, second step: PC <- R5; R5 <- pop
mark_pop(K1) ==
    IF ~K1.ok THEN K1
    ELSE mark_set(pop_stack(set_word_reg(K1, PROGRAM_COUNTER_INDEX,
                                         get_word_from_reg(K1, MARK_POINTER_INDEX))))

\* MARK n: SP <- SP + 2n on u16; PC <- R5; R5 <- pop
do_mark(K, command) ==
    mark_pop(increment_reg(K, STACK_POINTER_INDEX, 2 * adr_operand(command)))

(***************************************************************************)
(* cpu/commands.rs: the decoder.  The tables are consulted in the order    *)
(* zero-operand, priority/RTS, condition codes, one-operand, one-and-a-    *)
(* half-operand, two-operand, branch, each under its mask.  The tables     *)
(* hold the commands that are modelled: a word that misses them decodes    *)
(* to "UNMODELLED", and NoUnmodelledCommand states that no program of the  *)
(* model makes the CPU fetch such a word.                                  *)
(***************************************************************************)
o_0_commands ==
    (0 :> "HALT") @@ (1 :> "WAIT") @@ (5 :> "RESET") @@ (160 :> "NOP")
    @@ (2 :> "RTI") @@ (3 :> "BPT") @@ (4 :> "IOT") @@ (6 :> "RTT")

p_commands == (128 :> "RTS")

o_1_commands == (2688 :> "INC") @@ (3008 :> "TST") @@ (3328 :> "MARK")

o_1_5_commands == (29184 :> "DIV") @@ (32256 :> "SOB") @@ (2048 :> "JSR")

o_2_commands == (4096 :> "MOV") @@ (20480 :> "BIS") @@ (24576 :> "ADD") @@ (57344 :> "SUB")

b_commands ==
    (256 :> "BR") @@ (512 :> "BNE") @@ (768 :> "BEQ") @@ (34304 :> "BHIS/BCC")
    @@ (34560 :> "BCS/BLO") @@ (35072 :> "TRAP") @@ (34816 :> "EMT")

\* command_word & mask, for a mask of leading ones down to the bit `unit`
masked(command_word, unit) == command_word - (command_word % unit)

command(command_word) ==
    IF command_word \in DOMAIN o_0_commands THEN o_0_commands[command_word]
    ELSE IF masked(command_word, 8) \in DOMAIN p_commands
    THEN p_commands[masked(command_word, 8)]
    ELSE IF masked(command_word, 64) \in DOMAIN o_1_commands
    THEN o_1_commands[masked(command_word, 64)]
    ELSE IF masked(command_word, 512) \in DOMAIN o_1_5_commands
    THEN o_1_5_commands[masked(command_word, 512)]
    ELSE IF masked(command_word, 4096) \in DOMAIN o_2_commands
    THEN o_2_commands[masked(command_word, 4096)]
    ELSE IF masked(command_word, 256) \in DOMAIN b_commands
    THEN b_commands[masked(command_word, 256)]
    ELSE "UNMODELLED"

\* the command's interpreter applied to the machine
interpret(K, name, command_word) ==
    CASE name = "HALT" -> do_halt(K, command_word)
      [] name = "WAIT" -> do_wait(K, command_word)
      [] name = "RESET" -> do_nop(K, command_word)
      [] name = "NOP" -> do_nop(K, command_word)
      [] name = "RTI" -> do_rti(K, command_word)
      [] name = "BPT" -> do_bpt(K, command_word)
      [] name = "IOT" -> do_iot(K, command_word)
      [] name = "RTT" -> do_rtt(K, command_word)
      [] name = "RTS" -> do_rts(K, command_word)
      [] name = "INC" -> do_inc(K, command_word)
      [] name = "TST" -> do_tst(K, command_word)
      [] name = "JSR" -> do_jsr(K, command_word)
      [] name = "MOV" -> do_mov(K, command_word)
      [] name = "BIS" -> do_bis(K, command_word)
      [] name = "ADD" -> do_add(K, command_word)
      [] name = "BR" -> do_br(K, command_word)
      [] name = "BNE" -> do_bne(K, command_word)
      [] name = "BEQ" -> do_beq(K, command_word)
      [] name = "MARK" -> do_mark(K, command_word)
      [] name = "DIV" -> do_div(K, command_word)
      [] name = "SOB" -> do_sob(K, command_word)
      [] name = "SUB" -> do_sub(K, command_word)
      [] name = "BHIS/BCC" -> do_bcc(K, command_word)
      [] name = "BCS/BLO" -> do_bcs(K, command_word)
      [] name = "TRAP" -> do_trap(K, command_word)
      [] name = "EMT" -> do_emt(K, command_word)
      [] OTHER -> do_panic(K, command_word)

\* next_command, second step: g is the old PC and the machine with PC advanced
next_command_read(g) ==
    IF ~g.K.ok THEN [address |-> g.ret, command |-> 0, K |-> g.K]
    ELSE [address |-> g.ret, command |-> Memory_read_word(g.K.m, g.ret).ret,
          K |-> WithMemory(g.K, Memory_read_word(g.K.m, g.ret))]

\* next_command: the word at PC, and PC advanced by 2
next_command(K) ==
    next_command_read(get_and_increment(K, PROGRAM_COUNTER_INDEX, WORD_SIZE_BYTES))

\* the fetched command decoded and executed: its name and the machine it leaves
execute(n) ==
    IF ~n.K.ok THEN [name |-> "PANIC", K |-> n.K]
    ELSE [name |-> command(n.command), K |-> interpret(n.K, command(n.command), n.command)]

\* the instructions that trap by themselves
TrapInstructions == {"BPT", "IOT", "TRAP", "EMT"}

\* the T-bit trap at the end of an iteration that executed the instruction instr
trace_trap(K, instr) ==
    IF K.ok /\ instr \notin ({"none", "PANIC"} \cup TrapInstructions) /\ trap_flag(K)
    THEN perform_trap(K, BPT_VECTOR)
    ELSE K

\* the poll's result r acted on: a pending vector clears waiting and traps
accept(K, r) ==
    IF r.ret.some THEN perform_trap([K EXCEPT !.waiting = FALSE], r.ret.value) ELSE K

\* CPU start: the registers and the PSW reset, the PSW bound at 0xFFFE
cpu_start(K) ==
    WithMemory(
        set_status_word(
            set_word_reg(set_word_reg([K EXCEPT !.running = TRUE, !.waiting = FALSE],
                                      PROGRAM_COUNTER_INDEX, FIRST_COMMAND),
                         STACK_POINTER_INDEX, FIRST_STACK),
            0),
        map_word(set_status_word(K, 0).m, PSW_ADDRESS, "status"))

\* CPU halt: the PSW's binding released
cpu_unbind(K) == WithMemory(K, unmap_word(K.m, PSW_ADDRESS))

\* CPU::run's first statements as src/cpu.rs has them: the running flag is
\* set and PC <- FIRST_COMMAND; SP, the PSW and the other registers are
\* left as they are
run(K) == set_word_reg([K EXCEPT !.running = TRUE], PROGRAM_COUNTER_INDEX, FIRST_COMMAND)

\* the PSW bound at 0xFFFE, as cpu_start binds it
cpu_bind(K) == WithMemory(K, map_word(K.m, PSW_ADDRESS, "status"))

(***************************************************************************)
(* tty.rs: the console's operations.  A console T is [cells, bus,          *)
(* receiver_queue, stdout]: the cells it owns (with the others), the       *)
(* interrupt bus, its keyboard queue and what it has printed.              *)
(***************************************************************************)
RDY_STATUS_BIT == 7

INT_STATUS_BIT == 6

INT_PRIORITY == 4

RECEIVER_INT == 48

TRANSMITTER_INT == 52

\* the cell with its word changed by read_word, set_n_bit, write_word
cell_set_bit(c, n, value) ==
    Cell_write_word(Cell_read_word(c).cell, set_n_bit(Cell_read_word(c).ret, n, value))

set_printing(T, printing) ==
    [T EXCEPT !.cells["transmitter_status"] = cell_set_bit(@, RDY_STATUS_BIT, ~printing)]

print_from_buffer(T) ==
    [T EXCEPT !.cells["transmitter_buffer"] = Cell_read_byte(@, FALSE).cell,
              !.stdout = Append(@, Cell_read_byte(T.cells["transmitter_buffer"], FALSE).ret)]

is_empty_transmitter(T) == ~T.cells["transmitter_buffer"].has_new_data

notify_ready_to_print(T) ==
    [T EXCEPT !.cells["transmitter_status"] = Cell_read_word(@).cell,
              !.bus = IF get_n_bit(Cell_read_word(T.cells["transmitter_status"]).ret,
                                   INT_STATUS_BIT)
                      THEN interrupt(@, TRANSMITTER_INT, INT_PRIORITY)
                      ELSE @]

try_print(T) ==
    IF is_empty_transmitter(T) THEN T
    ELSE notify_ready_to_print(
             set_printing(print_from_buffer(set_printing(T, TRUE)), FALSE))

has_received_data(T) == T.cells["receiver_buffer"].has_new_data

set_recived(T, received) ==
    [T EXCEPT !.cells["receiver_status"] = cell_set_bit(@, RDY_STATUS_BIT, received)]

\* should_notify_received: the status is read, which clears its has_new_data
should_notify_received(T) ==
    [ret |-> /\ get_n_bit(Cell_read_word(T.cells["receiver_status"]).ret, INT_STATUS_BIT)
             /\ ~get_n_bit(Cell_read_word(T.cells["receiver_status"]).ret, RDY_STATUS_BIT),
     T |-> [T EXCEPT !.cells["receiver_status"] = Cell_read_word(@).cell]]

notify_received(T) == [T EXCEPT !.bus = interrupt(@, RECEIVER_INT, INT_PRIORITY)]

\* try_receive with data in the buffer: n is should_notify_received's result
receive_notify(n) ==
    IF n.ret THEN notify_received(set_recived(n.T, TRUE)) ELSE set_recived(n.T, TRUE)

\* try_receive with no data in the buffer: the next key, if any, is stored
receive_next(T) ==
    IF pop(T.receiver_queue).ret.some
    THEN [T EXCEPT !.receiver_queue = pop(T.receiver_queue).queue,
                   !.cells["receiver_buffer"] =
                       Cell_write_byte(@, pop(T.receiver_queue).ret.value, FALSE)]
    ELSE T

\* a plausible slip: the next key is stored whether or not RBUF holds data
try_receive_overwriting(T) == receive_next(set_recived(T, FALSE))

try_receive(T) ==
    IF has_received_data(T) THEN receive_notify(should_notify_received(T))
    ELSE receive_next(set_recived(T, FALSE))

(***************************************************************************)
(* The bus on its own: devices call interrupt, the CPU polls, in any       *)
(* order (the bus sits behind one mutex, so each call is one step).        *)
(***************************************************************************)
MaxInterrupts == 4

\* trap vectors the devices use: the DL11's receiver and transmitter
Vectors == {48, 52}

Priorities == 0..7

NoOp == [op |-> "none", priority |-> 0, vector |-> 0, ret |-> None]

TotalSent == Len(sent[4]) + Len(sent[5]) + Len(sent[6]) + Len(sent[7])

\* the level whose queue a poll shortened, if it shortened one
PoppedLevels(b, b2) == {L \in Levels : QueueOf(b2, L) # QueueOf(b, L)}

\* tty.rs: the console's register addresses
RECEIVER_STATUS_ADDRESS == 65392

RECEIVER_BUFFER_ADDRESS == 65394

TRANSMITTER_STATUS_ADDRESS == 65396

TRANSMITTER_BUFFER_ADDRESS == 65398

\* Dl11Tty::new: the console's four cells; cell1 and cell2 stand for cells of
\* any other owner
CellsInit ==
    [c \in {"receiver_status", "receiver_buffer", "transmitter_status",
            "transmitter_buffer"} |-> TtyMappedMemoryWord_new]
    @@ [c \in {"cell1", "cell2", "status"} |-> SimpleMappedMemoryWord_new]

NoMemOp == [op |-> "none", address |-> 0, cell |-> "", value |-> 0, ret |-> 0, ok |-> TRUE]

MemIdle ==
    /\ memory = Memory_new
    /\ cells = CellsInit
    /\ mem_op = NoMemOp
    /\ bound = << >>
    /\ unmapped_word = << >>
    /\ mem_steps = 0

BusIdle ==
    /\ bus = InterruptionBus_new
    /\ sent = [L \in Levels |-> <<>>]
    /\ delivered = [L \in Levels |-> <<>>]
    /\ last_op = NoOp

\* CPU::new
CPU_new(overflow_checks) ==
    [registers |-> [i \in 0..(REG_COUNT - 1) |-> 0], waiting |-> FALSE,
     overflow_checks |-> overflow_checks, ok |-> TRUE]

NoCpuOp == [op |-> "none", vector |-> 0]

CpuIdle ==
    /\ cpu = CPU_new(FALSE)
    /\ running = FALSE
    /\ cpu_op = NoCpuOp
    /\ frames = <<>>
    /\ cpu_steps = 0

(***************************************************************************)
(* The mutexes.  Memory, each mapped cell, the interrupt bus, the running  *)
(* flag, the keyboard thread's active flag and the Dl11Tty object each sit *)
(* behind a std::sync::Mutex.  A thread's operation is the sequence of     *)
(* lock() calls and guard drops it makes.                                  *)
(***************************************************************************)
Threads == {"cpu", "tty", "stdin"}

CellLocks == {"status", "receiver_status", "receiver_buffer", "transmitter_status",
              "transmitter_buffer"}

FlagLocks == {"running", "thread_active"}

Locks == {"memory", "bus", "dl11tty"} \cup CellLocks \cup FlagLocks

\* no thread holds a mutex or is inside an operation
LocksIdle ==
    /\ held = [t \in Threads |-> <<>>]
    /\ script = [t \in Threads |-> <<>>]

\* no thread has been started
ThreadIdle ==
    /\ cpu_pc = "off"
    /\ tick_instr = "none"
    /\ main_pc = "new"
    /\ tty_pc = "off"
    /\ stdin_pc = "off"
    /\ thread_active = FALSE
    /\ receiver_queue = BlockingQueue_new
    /\ stdout = <<>>
    /\ keys = 0
    /\ announced = FALSE
    /\ LocksIdle

BusInit ==
    /\ MemIdle
    /\ CpuIdle
    /\ ThreadIdle
    /\ bus = InterruptionBus_new
    /\ sent = [L \in Levels |-> <<>>]
    /\ delivered = [L \in Levels |-> <<>>]
    /\ last_op = NoOp

\* a device raises an interrupt
BusInterrupt(v, L) ==
    /\ TotalSent < MaxInterrupts
    /\ bus' = interrupt(bus, v, L)
    /\ sent' = [sent EXCEPT ![L] = Append(@, v)]
    /\ last_op' = [op |-> "interrupt", priority |-> L, vector |-> v, ret |-> None]
    /\ UNCHANGED delivered
    /\ UNCHANGED <<mem_vars, cpu_vars, thread_vars>>

\* the CPU polls with current priority p
BusPoll(p) ==
    LET r == next_interruption_if_any(bus, p)
    IN  /\ bus' = r.bus
        /\ delivered' = [L \in Levels |->
                            IF L \in PoppedLevels(bus, r.bus) /\ r.ret.some
                            THEN Append(delivered[L], r.ret.value)
                            ELSE delivered[L]]
        /\ last_op' = [op |-> "poll", priority |-> p, vector |-> 0, ret |-> r.ret]
        /\ UNCHANGED sent
        /\ UNCHANGED <<mem_vars, cpu_vars, thread_vars>>

BusNext ==
    /\ UNCHANGED <<announced, held, script>>
    /\ \/ \E v \in Vectors, L \in Levels : BusInterrupt(v, L)
       \/ \E p \in Priorities : BusPoll(p)

SpecBus == BusInit /\ [][BusNext]_vars

(***************************************************************************)
(* Claims about the bus, checked under SpecBus.                            *)
(***************************************************************************)
\* the levels above priority p whose queue holds a pending vector
PendingAbove(b, p) == {L \in Levels : L > p /\ QueueOf(b, L) # <<>>}

HighestOf(S) == CHOOSE L \in S : \A M \in S : M <= L

\* C1: a poll with priority p returns a vector if and only if some queue at a
\* level above p is non-empty; a poll that returns None leaves all four
\* queues as they were.
C1_PollReturnsIffPendingAbove ==
    [][last_op'.op = "poll" =>
          /\ last_op'.ret.some <=> PendingAbove(bus, last_op'.priority) # {}
          /\ ~last_op'.ret.some => bus' = bus]_vars

\* a poll returned None although a vector is pending at or below its priority
C1_Witness ==
    /\ last_op.op = "poll"
    /\ ~last_op.ret.some
    /\ last_op.priority \in 4..6
    /\ \E L \in Levels : L <= last_op.priority /\ QueueOf(bus, L) # <<>>

\* C2: a poll that returns a vector returns the head of the highest pending
\* level above its priority and removes exactly that element: every other
\* queue is unchanged, so a lower level is served only when the higher ones
\* are empty.
C2_PollTakesHighestLevel ==
    [][last_op'.op = "poll" /\ last_op'.ret.some =>
          LET above == PendingAbove(bus, last_op'.priority)
              H == HighestOf(above)
          IN  /\ above # {}
              /\ last_op'.ret.value = Head(QueueOf(bus, H))
              /\ \A L \in Levels :
                    QueueOf(bus', L) = IF L = H THEN Tail(QueueOf(bus, L))
                                               ELSE QueueOf(bus, L)]_vars

\* the only vector delivered so far came from level 7, by the last poll, while
\* levels 4 and 5, both above the poll's priority, stay pending
C2_Witness ==
    /\ last_op.op = "poll"
    /\ last_op.ret.some
    /\ last_op.priority < 4
    /\ Len(delivered[7]) = 1
    /\ \A L \in 4..6 : delivered[L] = <<>>
    /\ QueueOf(bus, 4) # <<>>
    /\ QueueOf(bus, 5) # <<>>

\* C3: at every level, what the polls returned so far followed by what is
\* still queued is exactly what interrupt() enqueued, in order: delivery is
\* FIFO and no vector is returned twice or lost.
C3_FifoWithinLevel ==
    \A L \in Levels : sent[L] = delivered[L] \o QueueOf(bus, L)

\* two different vectors of one level were delivered, with a third pending
C3_Witness ==
    \E L \in Levels :
        /\ Len(delivered[L]) = 2
        /\ delivered[L][1] # delivered[L][2]
        /\ QueueOf(bus, L) # <<>>

(***************************************************************************)
(* The memory on its own: any sequence of its entry points, of the         *)
(* console's map_registers / unmap_registers, and of stores the owner of   *)
(* a cell makes in the cell directly.                                      *)
(***************************************************************************)
MaxMemOps == 5

\* the word addresses operated on: one in plain memory, one console register
MemAddrs == {256, TRANSMITTER_BUFFER_ADDRESS}

MemWords == {0, 4779}

MemBytes == {205}

MapCells == {"cell1", "cell2"}

StoreCells == {"cell1", "cell2", "transmitter_buffer"}

Store == [bytes |-> memory.bytes, mapped |-> memory.mapped, cells |-> cells]

SetStore(m) ==
    /\ memory' = [bytes |-> m.bytes, mapped |-> m.mapped]
    /\ cells' = m.cells

Without(f, a) == [x \in DOMAIN f \ {a} |-> f[x]]

With(f, a, v) == [x \in DOMAIN f \cup {a} |-> IF x = a THEN v ELSE f[x]]

MemInit ==
    /\ BusIdle
    /\ CpuIdle
    /\ ThreadIdle
    /\ MemIdle

MemMapWord(a, c) ==
    LET r == map_word(Store, a, c)
    IN  /\ r.ok
        /\ SetStore(r.m)
        /\ mem_op' = [op |-> "map_word", address |-> a, cell |-> c, value |-> 0,
                      ret |-> r.ret, ok |-> r.ok]
        /\ bound' = With(bound, a, c)
        /\ unmapped_word' = Without(unmapped_word, a)

MemUnmapWord(a) ==
    LET r == unmap_word(Store, a)
    IN  /\ r.ok
        /\ SetStore(r.m)
        /\ mem_op' = [op |-> "unmap_word", address |-> a, cell |-> "", value |-> 0,
                      ret |-> r.ret, ok |-> r.ok]
        /\ bound' = Without(bound, a)
        /\ unmapped_word' = IF a \in DOMAIN bound
                            THEN With(unmapped_word, a, cells[bound[a]].word)
                            ELSE unmapped_word

MemReadWord(a) ==
    LET r == Memory_read_word(Store, a)
    IN  /\ r.ok
        /\ SetStore(r.m)
        /\ mem_op' = [op |-> "read_word", address |-> a, cell |-> "", value |-> 0,
                      ret |-> r.ret, ok |-> r.ok]
        /\ UNCHANGED <<bound, unmapped_word>>

MemWriteWord(a, w) ==
    LET r == Memory_write_word(Store, a, w)
    IN  /\ r.ok
        /\ SetStore(r.m)
        /\ mem_op' = [op |-> "write_word", address |-> a, cell |-> "", value |-> w,
                      ret |-> r.ret, ok |-> r.ok]
        /\ unmapped_word' = Without(unmapped_word, a)
        /\ UNCHANGED bound

MemReadByte(a) ==
    LET r == Memory_read_byte(Store, a)
    IN  /\ r.ok
        /\ SetStore(r.m)
        /\ mem_op' = [op |-> "read_byte", address |-> a, cell |-> "", value |-> 0,
                      ret |-> r.ret, ok |-> r.ok]
        /\ UNCHANGED <<bound, unmapped_word>>

MemWriteByte(a, b) ==
    LET r == Memory_write_byte(Store, a, b)
    IN  /\ r.ok
        /\ SetStore(r.m)
        /\ mem_op' = [op |-> "write_byte", address |-> a, cell |-> "", value |-> b,
                      ret |-> r.ret, ok |-> r.ok]
        /\ unmapped_word' = Without(unmapped_word, a - (a % 2))
        /\ UNCHANGED bound

\* the owner of a cell stores a word in it without going through Memory
CellStore(c, w) ==
    /\ cells' = [cells EXCEPT ![c] = Cell_write_word(@, w)]
    /\ mem_op' = [op |-> "cell_store", address |-> 0, cell |-> c, value |-> w,
                  ret |-> 0, ok |-> TRUE]
    /\ UNCHANGED <<memory, bound, unmapped_word>>

\* Dl11Tty::map_registers, under the memory lock
map_registers(m) ==
    LET m1 == map_word(m, RECEIVER_STATUS_ADDRESS, "receiver_status").m
        m2 == map_word(m1, RECEIVER_BUFFER_ADDRESS, "receiver_buffer").m
        m3 == map_word(m2, TRANSMITTER_STATUS_ADDRESS, "transmitter_status").m
    IN  map_word(m3, TRANSMITTER_BUFFER_ADDRESS, "transmitter_buffer").m

\* Dl11Tty::unmap_registers, under the memory lock
unmap_registers(m) ==
    LET m1 == unmap_word(m, RECEIVER_STATUS_ADDRESS).m
        m2 == unmap_word(m1, RECEIVER_BUFFER_ADDRESS).m
        m3 == unmap_word(m2, TRANSMITTER_STATUS_ADDRESS).m
    IN  unmap_word(m3, TRANSMITTER_BUFFER_ADDRESS).m

TtyRegisters ==
    (RECEIVER_STATUS_ADDRESS :> "receiver_status")
    @@ (RECEIVER_BUFFER_ADDRESS :> "receiver_buffer")
    @@ (TRANSMITTER_STATUS_ADDRESS :> "transmitter_status")
    @@ (TRANSMITTER_BUFFER_ADDRESS :> "transmitter_buffer")

MemMapRegisters ==
    /\ SetStore(map_registers(Store))
    /\ mem_op' = [op |-> "map_registers", address |-> 0, cell |-> "", value |-> 0,
                  ret |-> 0, ok |-> TRUE]
    /\ bound' = TtyRegisters @@ bound
    /\ unmapped_word' = [x \in DOMAIN unmapped_word \ DOMAIN TtyRegisters |->
                            unmapped_word[x]]

MemUnmapRegisters ==
    /\ SetStore(unmap_registers(Store))
    /\ mem_op' = [op |-> "unmap_registers", address |-> 0, cell |-> "", value |-> 0,
                  ret |-> 0, ok |-> TRUE]
    /\ bound' = [x \in DOMAIN bound \ DOMAIN TtyRegisters |-> bound[x]]
    /\ unmapped_word' =
          [x \in DOMAIN unmapped_word \cup (DOMAIN TtyRegisters \cap DOMAIN bound) |->
              IF x \in DOMAIN TtyRegisters /\ x \in DOMAIN bound
              THEN cells[bound[x]].word ELSE unmapped_word[x]]

MemNext ==
    /\ UNCHANGED <<bus_vars, cpu_vars, thread_vars, announced, held, script>>
    /\ mem_steps < MaxMemOps
    /\ mem_steps' = mem_steps + 1
    /\ \/ \E a \in MemAddrs, c \in MapCells : MemMapWord(a, c)
       \/ \E a \in MemAddrs : MemUnmapWord(a)
       \/ \E a \in MemAddrs : MemReadWord(a)
       \/ \E a \in MemAddrs, w \in MemWords : MemWriteWord(a, w)
       \/ \E a \in MemAddrs, d \in {0, 1} : MemReadByte(a + d)
       \/ \E a \in MemAddrs, d \in {0, 1}, b \in MemBytes : MemWriteByte(a + d, b)
       \/ \E c \in StoreCells, w \in MemWords : CellStore(c, w)
       \/ MemMapRegisters
       \/ MemUnmapRegisters

SpecMem == MemInit /\ [][MemNext]_vars

(***************************************************************************)
(* Claims about the memory's bindings, checked under SpecMem.              *)
(***************************************************************************)
\* C9: while the latest map_word(a, cell) stands, read_word(a) returns the
\* word that cell holds now, whoever stored it, and a word written at a
\* becomes that cell's word; no other cell (a cell bound there before
\* included) is read or changed by a read or write at a.
C9_ReadsAndWritesConsultBoundCell ==
    [][/\ (mem_op'.op = "read_word" /\ mem_op'.address \in DOMAIN bound) =>
             /\ mem_op'.ret = cells[bound[mem_op'.address]].word
             /\ \A c \in DOMAIN cells \ {bound[mem_op'.address]} : cells'[c] = cells[c]
       /\ (mem_op'.op = "write_word" /\ mem_op'.address \in DOMAIN bound) =>
             /\ cells'[bound[mem_op'.address]].word = mem_op'.value
             /\ \A c \in DOMAIN cells \ {bound[mem_op'.address]} : cells'[c] = cells[c]
       /\ (mem_op'.op \in {"read_byte", "write_byte"} /\ mem_op'.address \in DOMAIN bound) =>
             \A c \in DOMAIN cells \ {bound[mem_op'.address]} : cells'[c] = cells[c]
      ]_vars

\* a read at an address bound to cell2 returned cell2's word, which differs
\* from the backing bytes there and from the word of cell1
C9_Witness ==
    /\ mem_op.op = "read_word"
    /\ mem_op.address \in DOMAIN bound
    /\ bound[mem_op.address] = "cell2"
    /\ mem_op.ret = cells["cell2"].word
    /\ mem_op.ret # 0
    /\ cells["cell1"].word # cells["cell2"].word
    /\ cells["cell1"].word # 0
    /\ make_word(ByteAt(memory.bytes, mem_op.address),
                 ByteAt(memory.bytes, mem_op.address + 1)) # mem_op.ret

\* C10: from unmap_word(a) of a bound address until a is written or bound
\* again, the backing bytes at a and a+1 are the low and high half of the
\* word the cell held when it was unmapped and read_word(a) returns that
\* word, whatever is stored in the former cell meanwhile; unmap_registers
\* does this for the console's four registers.
C10_UnmapMaterializesWord ==
    \A a \in DOMAIN unmapped_word :
        /\ ByteAt(memory.bytes, a) = low(unmapped_word[a])
        /\ ByteAt(memory.bytes, a + 1) = high(unmapped_word[a])
        /\ (mem_op.op = "read_word" /\ mem_op.address = a) =>
              mem_op.ret = unmapped_word[a]

\* the console unmapped XBUF holding a non-zero word, its former cell was
\* changed afterwards, and the last operation read the address
C10_Witness ==
    /\ mem_op.op = "read_word"
    /\ mem_op.address = TRANSMITTER_BUFFER_ADDRESS
    /\ DOMAIN TtyRegisters \subseteq DOMAIN unmapped_word
    /\ unmapped_word[TRANSMITTER_BUFFER_ADDRESS] # 0
    /\ cells["transmitter_buffer"].word # unmapped_word[TRANSMITTER_BUFFER_ADDRESS]

\* the even address of the word a byte address lies in
WordOf(a) == a - (a % 2)

\* C11: while an even address a is bound to a cell, read_byte(a) returns
\* the low byte and read_byte(a+1) the high byte of the word the cell
\* holds at the read.
C11_ByteReadsConsultBoundCell ==
    [][(mem_op'.op = "read_byte" /\ WordOf(mem_op'.address) \in DOMAIN bound) =>
          mem_op'.ret = IF mem_op'.address % 2 = 0
                        THEN low(cells[bound[WordOf(mem_op'.address)]].word)
                        ELSE high(cells[bound[WordOf(mem_op'.address)]].word)]_vars

\* C12: while an even address a is bound to a cell, write_byte(a, b) and
\* write_byte(a+1, b) each replace the addressed half of the cell's word by
\* b and keep the other half, so that the word read_word(a) returns next,
\* the cell's word, contains b.
C12_ByteWritesKeepOtherHalf ==
    [][(mem_op'.op = "write_byte" /\ WordOf(mem_op'.address) \in DOMAIN bound) =>
          cells'[bound[WordOf(mem_op'.address)]].word =
             IF mem_op'.address % 2 = 0
             THEN make_word(mem_op'.value,
                            high(cells[bound[WordOf(mem_op'.address)]].word))
             ELSE make_word(low(cells[bound[WordOf(mem_op'.address)]].word),
                            mem_op'.value)]_vars

(***************************************************************************)
(* The trap sequence and RTI on their own: a running CPU with any PC, PSW  *)
(* and SP traps through a vector (BPT, IOT, or the vector of an accepted   *)
(* interrupt) and returns with RTI.                                        *)
(***************************************************************************)
MaxTrapSteps == 4

TrapPCs == {512, 4662}

TrapPSWs == {0, 229, 65535}

\* a stack that wraps below 0, one that lies on the IOT vector, a usual one
TrapSPs == {2, 20, 512}

HandlerPSWs == {4, 224}

TrapVectors == {BPT_VECTOR, IOT_VECTOR} \cup Vectors

\* the handler address stored in the vector v
HandlerOf(v) == 768 + v

\* the machine the CPU's operations work on, and its write-back
Machine ==
    [registers |-> cpu.registers, waiting |-> cpu.waiting, running |-> running,
     overflow_checks |-> cpu.overflow_checks, ok |-> cpu.ok, m |-> Store]

SetMachine(K) ==
    /\ cpu' = [registers |-> K.registers, waiting |-> K.waiting,
               overflow_checks |-> K.overflow_checks, ok |-> K.ok]
    /\ running' = K.running
    /\ SetStore(K.m)

\* the byte the vectors' words put at address a: the handler's address in
\* the vector's first word and the handler's PSW in its second
VectorByte(a, hpsw) ==
    LET v == a - (a % 4)
        w == IF a % 4 < 2 THEN HandlerOf(v) ELSE hpsw
    IN  IF a % 2 = 0 THEN low(w) ELSE high(w)

\* the store of a running CPU: the PSW bound at 0xFFFE, the vectors filled
TrapStore(psw, hpsw) ==
    [bytes |-> [a \in {x \in UNION {{v, v + 1, v + 2, v + 3} : v \in TrapVectors} :
                          VectorByte(x, hpsw) # 0} |-> VectorByte(a, hpsw)],
     mapped |-> (PSW_ADDRESS :> "status"),
     cells |-> [CellsInit EXCEPT !["status"].word = psw]]

TrapInit ==
    /\ BusIdle
    /\ ThreadIdle
    /\ mem_op = NoMemOp
    /\ bound = << >>
    /\ unmapped_word = << >>
    /\ mem_steps = 0
    /\ \E pc \in TrapPCs, sp \in TrapSPs, psw \in TrapPSWs, hpsw \in HandlerPSWs,
          oc \in BOOLEAN :
          /\ cpu = [CPU_new(oc) EXCEPT
                       !.registers = [i \in 0..(REG_COUNT - 1) |->
                                         IF i = PROGRAM_COUNTER_INDEX THEN pc
                                         ELSE IF i = STACK_POINTER_INDEX THEN sp
                                         ELSE i + 1]]
          /\ memory = [bytes |-> TrapStore(psw, hpsw).bytes,
                       mapped |-> TrapStore(psw, hpsw).mapped]
          /\ cells = TrapStore(psw, hpsw).cells
    /\ running = TRUE
    /\ cpu_op = NoCpuOp
    /\ frames = <<>>
    /\ cpu_steps = 0

\* the PC, PSW and SP of the machine
Frame(K) ==
    [pc |-> get_word_from_reg(K, PROGRAM_COUNTER_INDEX), psw |-> status_word(K),
     sp |-> get_word_from_reg(K, STACK_POINTER_INDEX)]

TrapStep(K, v) ==
    /\ SetMachine(K)
    /\ cpu_op' = [op |-> "trap", vector |-> v]
    /\ frames' = IF K.ok THEN Append(frames, Frame(Machine)) ELSE frames

TrapBpt == TrapStep(do_bpt(Machine, 3), BPT_VECTOR)

TrapIot == TrapStep(do_iot(Machine, 4), IOT_VECTOR)

\* the trap of an accepted interrupt with vector v
TrapInterrupt(v) == TrapStep(perform_trap(Machine, v), v)

TrapRti ==
    /\ SetMachine(do_rti(Machine, 2))
    /\ cpu_op' = [op |-> "rti", vector |-> 0]
    /\ frames' = IF frames = <<>> THEN frames ELSE SubSeq(frames, 1, Len(frames) - 1)

TrapNext ==
    /\ cpu.ok
    /\ cpu_steps < MaxTrapSteps
    /\ cpu_steps' = cpu_steps + 1
    /\ UNCHANGED <<bus_vars, thread_vars, mem_op, bound, unmapped_word, mem_steps,
                   announced, held, script>>
    /\ \/ TrapBpt
       \/ TrapIot
       \/ \E v \in Vectors : TrapInterrupt(v)
       \/ TrapRti

SpecTrap == TrapInit /\ [][TrapNext]_vars

(***************************************************************************)
(* Claims about the trap sequence and RTI, checked under SpecTrap.         *)
(***************************************************************************)
\* the word read_word returns at address a of the store m
WordAt(m, a) == Memory_read_word(m, a).ret

\* the four byte addresses of the two words a trap pushes below sp
PushedBytes(sp) == (sp - 4) .. (sp - 1)

\* the four byte addresses of the vector v
VectorBytes(v) == v .. (v + 3)

TopFrame == frames[Len(frames)]

MaxInstructions == 5

MaxDeviceInterrupts == 2

MaxKeys == 1

Keys == {65}

\* WAIT HALT; BPT HALT; NOP WAIT HALT; IOT WAIT HALT
Programs == {<<1, 0>>, <<3, 0>>, <<160, 1, 0>>, <<4, 1, 0>>}

\* a device's requests: its vector and its level
DeviceRequests == {<<RECEIVER_INT, 4>>, <<RECEIVER_INT, 5>>, <<TRANSMITTER_INT, 6>>,
                   <<TRANSMITTER_INT, 7>>}

\* the PSW a device's vector loads: priority 5 for 0x30, priority 7 for 0x34
DevicePSW(v) == IF v = RECEIVER_INT THEN 160 ELSE 224

\* the PSW the BPT and IOT vectors load: T clear or T set
TracePSWs == {0, 16}

\* the handlers: RTI for BPT, NOP RTT for IOT, NOP RTI for the devices
HandlerCode(v) ==
    IF v = IOT_VECTOR THEN <<160, 6>>
    ELSE IF v = BPT_VECTOR THEN <<2, 0>>
    ELSE <<160, 2>>

\* the words of the memory image: the program, the vectors, the handlers
ImageWords(program, tpsw) ==
    [a \in {FIRST_COMMAND + 2 * (i - 1) : i \in 1..Len(program)} |->
        program[((a - FIRST_COMMAND) \div 2) + 1]]
    @@ [a \in TrapVectors |-> HandlerOf(a)]
    @@ [a \in {v + 2 : v \in TrapVectors} |->
           IF a - 2 \in Vectors THEN DevicePSW(a - 2) ELSE tpsw]
    @@ [a \in {HandlerOf(v) : v \in TrapVectors} |-> HandlerCode(a - 768)[1]]
    @@ [a \in {HandlerOf(v) + 2 : v \in TrapVectors} |-> HandlerCode(a - 770)[2]]

\* the byte at address a of an image of words
ImageByte(words, a) ==
    IF a % 2 = 0 THEN low(words[a]) ELSE high(words[a - 1])

\* the bytes of the image, the non-zero ones
ImageBytes(words) ==
    [a \in {x \in UNION {{w, w + 1} : w \in DOMAIN words} : ImageByte(words, x) # 0} |->
        ImageByte(words, a)]

\* the memory image loaded, nothing started
Loaded ==
    /\ BusIdle
    /\ mem_op = NoMemOp
    /\ bound = << >>
    /\ unmapped_word = << >>
    /\ mem_steps = 0
    /\ cells = CellsInit
    /\ \E program \in Programs, tpsw \in TracePSWs :
          memory = [bytes |-> ImageBytes(ImageWords(program, tpsw)),
                    mapped |-> << >>]
    /\ \E oc \in BOOLEAN : cpu = CPU_new(oc)
    /\ running = FALSE
    /\ cpu_op = NoCpuOp
    /\ frames = <<>>
    /\ cpu_steps = 0

SysInit ==
    /\ Loaded
    /\ ThreadIdle

\* the console as its operations see it, and its write-back
Console == [cells |-> cells, bus |-> bus, receiver_queue |-> receiver_queue,
            stdout |-> stdout]

\* the history of requests, after the bus became b2
SentAfter(b2) ==
    [L \in Levels |->
        IF Len(QueueOf(b2, L)) > Len(QueueOf(bus, L))
        THEN Append(sent[L], QueueOf(b2, L)[Len(QueueOf(b2, L))])
        ELSE sent[L]]

SetConsole(T) ==
    /\ cells' = T.cells
    /\ bus' = T.bus
    /\ sent' = SentAfter(T.bus)
    /\ receiver_queue' = T.receiver_queue
    /\ stdout' = T.stdout

\* Pdp11::run_tty: the console thread is spawned and starts by sleeping
MainRunTty ==
    /\ main_pc = "new"
    /\ main_pc' = "run_cpu"
    /\ tty_pc' = "sleep"
    /\ UNCHANGED <<bus_vars, memory, cells, cpu_vars, cpu_pc, tick_instr, stdin_pc,
                   thread_active, receiver_queue, stdout, keys>>

\* Pdp11::run, last line: the console thread is joined and run returns
MainJoin ==
    /\ main_pc = "run_cpu"
    /\ cpu_pc = "done"
    /\ tty_pc = "finished"
    /\ main_pc' = "returned"
    /\ UNCHANGED <<bus_vars, memory, cells, cpu_vars, cpu_pc, tick_instr, tty_pc,
                   stdin_pc, thread_active, receiver_queue, stdout, keys>>

\* CPU::run begins
CpuStart ==
    /\ main_pc = "run_cpu"
    /\ cpu_pc = "off"
    /\ SetMachine(cpu_start(Machine))
    /\ cpu_pc' = IF cpu_start(Machine).ok THEN "check" ELSE "panicked"
    /\ cpu_op' = [op |-> "start", vector |-> 0]
    /\ UNCHANGED <<bus_vars, frames, cpu_steps, tick_instr, main_pc, tty_pc, stdin_pc,
                   thread_active, receiver_queue, stdout, keys>>

\* the loop's test of the running flag
CpuCheck ==
    /\ cpu_pc = "check"
    /\ cpu_pc' = IF running THEN "exec" ELSE "unbind"
    /\ cpu_op' = [op |-> "check", vector |-> 0]
    /\ UNCHANGED <<bus_vars, memory, cells, cpu, running, frames, cpu_steps, tick_instr,
                   main_pc, tty_pc, stdin_pc, thread_active, receiver_queue, stdout, keys>>

\* an iteration of a waiting CPU: nothing is fetched
CpuIdleTick ==
    /\ cpu_pc = "exec"
    /\ cpu.waiting
    /\ cpu_pc' = "poll"
    /\ tick_instr' = "none"
    /\ cpu_op' = [op |-> "idle", vector |-> 0]
    /\ UNCHANGED <<bus_vars, memory, cells, cpu, running, frames, cpu_steps,
                   main_pc, tty_pc, stdin_pc, thread_active, receiver_queue, stdout, keys>>

\* what a JSR fetched at the PC of K0 leaves behind: the machine before it
\* (its address, PSW and SP), its command word, its register and the
\* register's value, and the SP and the register in K1, at the
\* subroutine's entry
CallFrame(K0, K1, command_word) ==
    [pc |-> get_word_from_reg(K0, PROGRAM_COUNTER_INDEX), psw |-> status_word(K0),
     sp |-> get_word_from_reg(K0, STACK_POINTER_INDEX),
     command |-> command_word,
     reg |-> reg_operand(command_word),
     reg_value |-> get_word_from_reg(K0, reg_operand(command_word)),
     entry_sp |-> get_word_from_reg(K1, STACK_POINTER_INDEX),
     entry_reg |-> get_word_from_reg(K1, reg_operand(command_word))]

\* the frames after the instruction name executed from the machine K0
FramesAfter(name, K0, ok) ==
    IF ~ok THEN frames
    ELSE IF name \in TrapInstructions THEN Append(frames, Frame(K0))
    ELSE IF name = "JSR"
    THEN Append(frames, CallFrame(K0, execute(next_command(K0)).K,
                                  next_command(K0).command))
    ELSE IF name \in {"RTI", "RTT", "RTS"} /\ frames # <<>>
    THEN SubSeq(frames, 1, Len(frames) - 1)
    ELSE frames

\* an iteration of a CPU that is not waiting: fetch, decode, execute
CpuExec ==
    /\ cpu_pc = "exec"
    /\ ~cpu.waiting
    /\ cpu_steps < MaxInstructions
    /\ cpu_steps' = cpu_steps + 1
    /\ SetMachine(execute(next_command(Machine)).K)
    /\ tick_instr' = execute(next_command(Machine)).name
    /\ cpu_pc' = IF execute(next_command(Machine)).K.ok THEN "poll" ELSE "panicked"
    /\ cpu_op' = [op |-> "exec", vector |-> 0]
    /\ frames' = FramesAfter(execute(next_command(Machine)).name, Machine,
                             execute(next_command(Machine)).K.ok)
    /\ UNCHANGED <<bus_vars, main_pc, tty_pc, stdin_pc, thread_active, receiver_queue,
                   stdout, keys>>

\* the frames after a poll that returned r and left K1 before the T-bit trap
FramesAfterPoll(r, K1, K2) ==
    IF ~K2.ok THEN frames
    ELSE IF r.ret.some /\ K2 # K1 THEN frames \o <<Frame(Machine), Frame(K1)>>
    ELSE IF r.ret.some THEN Append(frames, Frame(Machine))
    ELSE IF K2 # K1 THEN Append(frames, Frame(K1))
    ELSE frames

\* the poll r of the bus acted on by the machine
PollStep(r) ==
    /\ SetMachine(trace_trap(accept(Machine, r), tick_instr))
    /\ cpu_pc' = IF trace_trap(accept(Machine, r), tick_instr).ok
                 THEN "check" ELSE "panicked"
    /\ frames' = FramesAfterPoll(r, accept(Machine, r),
                                 trace_trap(accept(Machine, r), tick_instr))
    /\ bus' = r.bus
    /\ delivered' = [L \in Levels |->
                        IF L \in PoppedLevels(bus, r.bus) /\ r.ret.some
                        THEN Append(delivered[L], r.ret.value)
                        ELSE delivered[L]]
    /\ last_op' = [op |-> "poll", priority |-> priority(Machine), vector |-> 0,
                   ret |-> r.ret]
    /\ cpu_op' = IF r.ret.some THEN [op |-> "accept", vector |-> r.ret.value]
                 ELSE [op |-> "poll", vector |-> 0]

\* the end of an iteration: the bus is polled at the PSW's priority, a
\* pending vector is trapped through, then the T bit is looked at
CpuPoll ==
    /\ cpu_pc = "poll"
    /\ PollStep(next_interruption_if_any(bus, priority(Machine)))
    /\ UNCHANGED <<sent, cpu_steps, tick_instr, main_pc, tty_pc, stdin_pc, thread_active,
                   receiver_queue, stdout, keys>>

\* the loop has ended: the PSW's binding is released and CPU::run returns
CpuUnbind ==
    /\ cpu_pc = "unbind"
    /\ SetMachine(cpu_unbind(Machine))
    /\ cpu_pc' = IF cpu_unbind(Machine).ok THEN "done" ELSE "panicked"
    /\ cpu_op' = [op |-> "unbind", vector |-> 0]
    /\ UNCHANGED <<bus_vars, frames, cpu_steps, tick_instr, main_pc, tty_pc, stdin_pc,
                   thread_active, receiver_queue, stdout, keys>>

\* Dl11Tty::run, first line, after the thread's sleep: map_registers
TtyMapRegisters ==
    /\ tty_pc = "sleep"
    /\ SetStore(map_registers(Store))
    /\ tty_pc' = "mapped"
    /\ UNCHANGED <<bus_vars, cpu_vars, cpu_pc, tick_instr, main_pc, stdin_pc,
                   thread_active, receiver_queue, stdout, keys>>

\* Dl11Tty::run up to its loop: set_printing(false), the keyboard thread spawned
TtySpawnStdin ==
    /\ tty_pc = "mapped"
    /\ SetConsole(set_printing(Console, FALSE))
    /\ thread_active' = TRUE
    /\ stdin_pc' = "check"
    /\ tty_pc' = "check"
    /\ UNCHANGED <<delivered, last_op, memory, cpu_vars, cpu_pc, tick_instr, main_pc,
                   keys>>

\* the console loop's test of the running flag
TtyCheck ==
    /\ tty_pc = "check"
    /\ tty_pc' = IF running THEN "print" ELSE "stop"
    /\ UNCHANGED <<bus_vars, memory, cells, cpu_vars, cpu_pc, tick_instr, main_pc,
                   stdin_pc, thread_active, receiver_queue, stdout, keys>>

TtyTryPrint ==
    /\ tty_pc = "print"
    /\ SetConsole(try_print(Console))
    /\ tty_pc' = "receive"
    /\ UNCHANGED <<delivered, last_op, memory, cpu_vars, cpu_pc, tick_instr, main_pc,
                   stdin_pc, thread_active, keys>>

\* try_receive, and the sleep that ends the iteration
TtyTryReceive ==
    /\ tty_pc = "receive"
    /\ SetConsole(try_receive(Console))
    /\ tty_pc' = "check"
    /\ UNCHANGED <<delivered, last_op, memory, cpu_vars, cpu_pc, tick_instr, main_pc,
                   stdin_pc, thread_active, keys>>

\* after the loop: the keyboard thread is told to stop
TtyStop ==
    /\ tty_pc = "stop"
    /\ thread_active' = FALSE
    /\ tty_pc' = "join"
    /\ UNCHANGED <<bus_vars, memory, cells, cpu_vars, cpu_pc, tick_instr, main_pc,
                   stdin_pc, receiver_queue, stdout, keys>>

\* stdin_loop.join() returns once the keyboard thread has ended
TtyJoin ==
    /\ tty_pc = "join"
    /\ stdin_pc = "done"
    /\ tty_pc' = "unmap"
    /\ UNCHANGED <<bus_vars, memory, cells, cpu_vars, cpu_pc, tick_instr, main_pc,
                   stdin_pc, thread_active, receiver_queue, stdout, keys>>

\* Dl11Tty::run, last line: unmap_registers
TtyUnmapRegisters ==
    /\ tty_pc = "unmap"
    /\ SetStore(unmap_registers(Store))
    /\ tty_pc' = "finished"
    /\ UNCHANGED <<bus_vars, cpu_vars, cpu_pc, tick_instr, main_pc, stdin_pc,
                   thread_active, receiver_queue, stdout, keys>>

\* stdin_loop's test of the active flag
StdinCheck ==
    /\ stdin_pc = "check"
    /\ stdin_pc' = IF thread_active THEN "read" ELSE "done"
    /\ UNCHANGED <<bus_vars, memory, cells, cpu_vars, cpu_pc, tick_instr, main_pc,
                   tty_pc, thread_active, receiver_queue, stdout, keys>>

\* blocking_get_next_char returns the key c, which is queued
StdinRead(c) ==
    /\ stdin_pc = "read"
    /\ keys < MaxKeys
    /\ keys' = keys + 1
    /\ receiver_queue' = push(receiver_queue, c)
    /\ stdin_pc' = "check"
    /\ UNCHANGED <<bus_vars, memory, cells, cpu_vars, cpu_pc, tick_instr, main_pc,
                   tty_pc, thread_active, stdout>>

\* blocking_get_next_char returns None: the host's read failed
StdinReadFailed ==
    /\ stdin_pc = "read"
    /\ stdin_pc' = "check"
    /\ UNCHANGED <<bus_vars, memory, cells, cpu_vars, cpu_pc, tick_instr, main_pc,
                   tty_pc, thread_active, receiver_queue, stdout, keys>>

\* a device on the bus requests an interrupt
DeviceInterrupt(v, L) ==
    /\ TotalSent < MaxDeviceInterrupts
    /\ <<v, L>> \in DeviceRequests
    /\ bus' = interrupt(bus, v, L)
    /\ sent' = [sent EXCEPT ![L] = Append(@, v)]
    /\ UNCHANGED <<delivered, last_op, memory, cells, cpu_vars, thread_vars>>

SysNext ==
    /\ UNCHANGED <<mem_op, bound, unmapped_word, mem_steps, announced, held, script>>
    /\ \/ MainRunTty
       \/ MainJoin
       \/ CpuStart
       \/ CpuCheck
       \/ CpuIdleTick
       \/ CpuExec
       \/ CpuPoll
       \/ CpuUnbind
       \/ TtyMapRegisters
       \/ TtySpawnStdin
       \/ TtyCheck
       \/ TtyTryPrint
       \/ TtyTryReceive
       \/ TtyStop
       \/ TtyJoin
       \/ TtyUnmapRegisters
       \/ StdinCheck
       \/ \E c \in Keys : StdinRead(c)
       \/ StdinReadFailed

SpecSys == SysInit /\ [][SysNext]_vars

\* no program of the model makes the CPU fetch a word of a table that is
\* not modelled
NoUnmodelledCommand == tick_instr # "UNMODELLED"

(***************************************************************************)
(* The CPU on its own, as test_programs.rs runs it: CPU::run on a loaded   *)
(* memory, with devices on its bus that request interrupts at the levels   *)
(* 4 to 7.                                                                 *)
(***************************************************************************)
CpuInit ==
    /\ Loaded
    /\ cpu_pc = "off"
    /\ tick_instr = "none"
    /\ main_pc = "run_cpu"
    /\ tty_pc = "off"
    /\ stdin_pc = "off"
    /\ thread_active = FALSE
    /\ receiver_queue = BlockingQueue_new
    /\ stdout = <<>>
    /\ keys = 0
    /\ announced = FALSE
    /\ LocksIdle

CpuNext ==
    /\ UNCHANGED <<mem_op, bound, unmapped_word, mem_steps, announced, held, script>>
    /\ \/ CpuStart
       \/ CpuCheck
       \/ CpuIdleTick
       \/ CpuExec
       \/ CpuPoll
       \/ CpuUnbind
       \/ \E v \in Vectors, L \in Levels : DeviceInterrupt(v, L)

SpecCpu == CpuInit /\ [][CpuNext]_vars

(***************************************************************************)
(* Claims about the CPU loop, checked under SpecCpu.                       *)
(***************************************************************************)
\* the levels a request leaves the bus from in this step
AcceptedLevels == {L \in Levels : Len(QueueOf(bus', L)) < Len(QueueOf(bus, L))}

\* this step is a step of the CPU
CpuSteps == cpu_pc' # cpu_pc

C8_HaltStopsEverything ==
    [][/\ (cpu_pc = "exec" /\ CpuSteps /\ tick_instr' = "HALT") => ~running'
       /\ (tick_instr = "HALT")
          => /\ tick_instr' = "HALT"
             /\ cpu_steps' = cpu_steps
             /\ ~running'
             /\ cpu_pc' \in {"poll", "check", "unbind", "done", "panicked"}
       /\ (tick_instr = "HALT" /\ tty_pc = "check" /\ tty_pc' # tty_pc)
          => tty_pc' = "stop"
       /\ (main_pc' = "returned")
          => /\ cpu_pc' = "done"
             /\ tty_pc' = "finished"
             /\ stdin_pc' = "done"]_vars

\* the program has halted, the console thread ran its loop, took a key,
\* left the loop and was joined, and Pdp11::run has returned
C8_Witness ==
    /\ main_pc = "returned"
    /\ tick_instr = "HALT"
    /\ ~running
    /\ cells["receiver_buffer"].word = 65
    /\ PSW_ADDRESS \notin DOMAIN memory.mapped

(***************************************************************************)
(* The console and a running program: the console thread is in its loop,   *)
(* keys arrive, and the program's instructions read and write the four     *)
(* registers through Memory.  An instruction's access is one step here     *)
(* (the CPU holds the memory lock for it).                                 *)
(***************************************************************************)
MaxProgOps == 4

\* the program's stores: interrupt enable into a status register (which
\* clears the other bits, as MOV #100, @#RCSR does), zero, a byte into XBUF
ProgStores ==
    {<<RECEIVER_STATUS_ADDRESS, 64>>, <<RECEIVER_STATUS_ADDRESS, 0>>,
     <<TRANSMITTER_STATUS_ADDRESS, 64>>, <<TRANSMITTER_BUFFER_ADDRESS, 66>>}

\* the status registers the program sets the interrupt enable bit in (BIS)
ProgBisAddrs == {RECEIVER_STATUS_ADDRESS, TRANSMITTER_STATUS_ADDRESS}

\* the registers the program reads
ProgLoads ==
    {RECEIVER_STATUS_ADDRESS, RECEIVER_BUFFER_ADDRESS, TRANSMITTER_STATUS_ADDRESS,
     TRANSMITTER_BUFFER_ADDRESS}

\* Dl11Tty::run has mapped the registers and called set_printing(false);
\* the CPU is running
TtyInit ==
    /\ BusIdle
    /\ cpu = CPU_new(FALSE)
    /\ running = TRUE
    /\ cpu_op = NoCpuOp
    /\ frames = <<>>
    /\ cpu_steps = 0
    /\ cpu_pc = "check"
    /\ tick_instr = "none"
    /\ main_pc = "run_cpu"
    /\ tty_pc = "check"
    /\ stdin_pc = "check"
    /\ thread_active = TRUE
    /\ receiver_queue = BlockingQueue_new
    /\ stdout = <<>>
    /\ keys = 0
    /\ announced = FALSE
    /\ LocksIdle
    /\ memory = [bytes |-> << >>, mapped |-> TtyRegisters]
    /\ cells = set_printing([cells |-> CellsInit, bus |-> InterruptionBus_new,
                             receiver_queue |-> BlockingQueue_new, stdout |-> <<>>],
                            FALSE).cells
    /\ mem_op = NoMemOp
    /\ bound = TtyRegisters
    /\ unmapped_word = << >>
    /\ mem_steps = 0

\* an instruction of the program stores the word w at a (MOV)
ProgWriteWord(a, w) ==
    /\ mem_steps < MaxProgOps
    /\ mem_steps' = mem_steps + 1
    /\ MemWriteWord(a, w)

\* an instruction of the program loads the word at a (MOV)
ProgReadWord(a) ==
    /\ mem_steps < MaxProgOps
    /\ mem_steps' = mem_steps + 1
    /\ MemReadWord(a)

\* an instruction of the program sets bit 6 of the word at a (BIS #100, a):
\* the word is read, or-ed and written back
ProgBisWord(a) ==
    /\ mem_steps < MaxProgOps
    /\ mem_steps' = mem_steps + 1
    /\ MemWriteWord(a, set_n_bit(Memory_read_word(Store, a).ret, INT_STATUS_BIT, TRUE))

\* try_receive, and whether the byte in RBUF has been announced after it
TtyReceiveTick ==
    /\ TtyTryReceive
    /\ announced' = IF has_received_data(Console)
                    THEN announced \/ try_receive(Console).bus # bus
                    ELSE FALSE

TtyNext ==
    \/ /\ \E s \in ProgStores : ProgWriteWord(s[1], s[2])
       /\ UNCHANGED <<bus_vars, cpu_vars, thread_vars, announced, held, script>>
    \/ /\ \E a \in ProgLoads : ProgReadWord(a)
       /\ UNCHANGED <<bus_vars, cpu_vars, thread_vars, announced, held, script>>
    \/ /\ \E a \in ProgBisAddrs : ProgBisWord(a)
       /\ UNCHANGED <<bus_vars, cpu_vars, thread_vars, announced, held, script>>
    \/ /\ TtyCheck
       /\ UNCHANGED <<mem_op, bound, unmapped_word, mem_steps, announced, held, script>>
    \/ /\ TtyTryPrint
       /\ UNCHANGED <<mem_op, bound, unmapped_word, mem_steps, announced, held, script>>
    \/ /\ TtyReceiveTick
       /\ UNCHANGED <<mem_op, bound, unmapped_word, mem_steps, held, script>>
    \/ /\ StdinCheck
       /\ UNCHANGED <<mem_op, bound, unmapped_word, mem_steps, announced, held, script>>
    \/ /\ \E c \in Keys : StdinRead(c)
       /\ UNCHANGED <<mem_op, bound, unmapped_word, mem_steps, announced, held, script>>

SpecTty == TtyInit /\ [][TtyNext]_vars

(***************************************************************************)
(* Claims about the console's registers, checked under SpecTty.            *)
(***************************************************************************)
\* this step is the transmitter half of a device tick (try_print)
PrintTick == tty_pc = "print" /\ tty_pc' = "receive"

\* this step is the receiver half of a device tick (try_receive)
ReceiveTick == tty_pc = "receive" /\ tty_pc' = "check"

\* this step is an access of the program to the register at a
ProgAccess(op, a) == mem_steps' # mem_steps /\ mem_op'.op = op /\ mem_op'.address = a

\* C14: XBUF counts as written since it was last read from a program store
\* to it until the next load of it, by the program or by the device.  On a
\* device tick the transmitter emits a byte if and only if XBUF counts as
\* written; the byte is the low byte of XBUF's word; after the tick XCSR
\* bit 7 is 1 and the other XCSR bits are as before; a transmitter
\* interrupt (vector 0x0034, level 4) is enqueued on the tick if and only
\* if a byte was emitted and XCSR bit 6 is set.
C14_TransmitterTick ==
    [][/\ ProgAccess("write_word", TRANSMITTER_BUFFER_ADDRESS)
             => cells'["transmitter_buffer"].has_new_data
       /\ ProgAccess("read_word", TRANSMITTER_BUFFER_ADDRESS)
             => ~cells'["transmitter_buffer"].has_new_data
       /\ (mem_steps' = mem_steps /\ ~PrintTick)
             => cells'["transmitter_buffer"] = cells["transmitter_buffer"]
       /\ PrintTick =>
             /\ stdout' # stdout <=> cells["transmitter_buffer"].has_new_data
             /\ stdout' # stdout =>
                   /\ stdout' = Append(stdout, low(cells["transmitter_buffer"].word))
                   /\ ~cells'["transmitter_buffer"].has_new_data
             /\ get_n_bit(cells'["transmitter_status"].word, RDY_STATUS_BIT)
             /\ \A n \in (0..15) \ {RDY_STATUS_BIT} :
                   get_n_bit(cells'["transmitter_status"].word, n)
                      = get_n_bit(cells["transmitter_status"].word, n)
             /\ bus' # bus <=>
                   /\ stdout' # stdout
                   /\ get_n_bit(cells["transmitter_status"].word, INT_STATUS_BIT)
             /\ bus' # bus => bus' = interrupt(bus, TRANSMITTER_INT, INT_PRIORITY)]_vars

\* RCSR bit 7 as the program would load it
RDY == get_n_bit(cells["receiver_status"].word, RDY_STATUS_BIT)

\* C15: RBUF holds a received byte the program has not read from the tick
\* that takes the byte off the keyboard queue until the program loads
\* RBUF.  Whenever the program loads RCSR with bit 7 (RDY) = 1, RBUF holds
\* such a byte; once the program has loaded RBUF, RDY is 0 and stays 0
\* until the device has placed the next byte.
C15_ReadyMeansUnreadByte ==
    [][/\ (ReceiveTick /\ receiver_queue' # receiver_queue)
             => /\ cells'["receiver_buffer"].has_new_data
                /\ low(cells'["receiver_buffer"].word) = Head(receiver_queue)
       /\ ProgAccess("read_word", RECEIVER_BUFFER_ADDRESS)
             => ~cells'["receiver_buffer"].has_new_data
       /\ (~ProgAccess("read_word", RECEIVER_BUFFER_ADDRESS)
           /\ receiver_queue' = receiver_queue)
             => cells'["receiver_buffer"] = cells["receiver_buffer"]
       /\ (ProgAccess("read_word", RECEIVER_STATUS_ADDRESS)
           /\ get_n_bit(mem_op'.ret, RDY_STATUS_BIT))
             => cells["receiver_buffer"].has_new_data
       /\ RDY' => cells'["receiver_buffer"].has_new_data]_vars

\* RCSR bit 6 as the device would read it
RIE == get_n_bit(cells["receiver_status"].word, INT_STATUS_BIT)

\* C16: on a device tick a receiver interrupt is raised if and only if
\* RBUF holds a byte the program has not read, RCSR bit 6 (RIE) is set and
\* no receiver interrupt has been raised for that byte yet; the interrupt
\* is one request for vector 0x0030 at level 4.
C16_ReceiverInterruptOncePerByte ==
    [][/\ ReceiveTick =>
             /\ bus' # bus <=>
                   /\ cells["receiver_buffer"].has_new_data
                   /\ RIE
                   /\ ~announced
             /\ bus' # bus => bus' = interrupt(bus, RECEIVER_INT, INT_PRIORITY)
       /\ ~ReceiveTick => bus'.interruption_br4 \in
             {bus.interruption_br4, Append(bus.interruption_br4, TRANSMITTER_INT)}]_vars

(***************************************************************************)
(* The console thread beside an instruction in progress.  The CPU holds    *)
(* the memory lock for the whole instruction, but the console thread       *)
(* takes only the lock of the cell it touches, and Memory::write_word      *)
(* takes the cell's lock twice: in write_byte for the low byte, and again  *)
(* for the whole word.  The instruction here is a store of a word to XBUF  *)
(* (MOV), in those two steps; cpu_pc = "exec" between them.                *)
(***************************************************************************)
MaxSharedStores == 3

\* the words the program stores to XBUF
SharedWords == {321, 578}

\* write_word up to the end of its first write_byte: the first time the
\* cell's lock is taken and released
InstrWriteLow(a, w) ==
    /\ cpu_pc = "check"
    /\ mem_steps < MaxSharedStores
    /\ mem_steps' = mem_steps + 1
    /\ Memory_write_byte(Store, a, low(w)).ok
    /\ SetStore(Memory_write_byte(Store, a, low(w)).m)
    /\ mem_op' = [op |-> "write_word", address |-> a, cell |-> bound[a], value |-> w,
                  ret |-> cells[bound[a]].word, ok |-> TRUE]
    /\ cpu_pc' = "exec"
    /\ UNCHANGED <<bus_vars, cpu_vars, bound, unmapped_word, tick_instr, main_pc, tty_pc,
                   stdin_pc, thread_active, receiver_queue, stdout, keys, announced, held, script>>

\* the rest of write_word: the high byte, then the cell's write_word
InstrWriteRest ==
    /\ cpu_pc = "exec"
    /\ SetStore(write_word_high(Done(Store, 0), mem_op.address, mem_op.value).m)
    /\ cpu_pc' = "check"
    /\ UNCHANGED <<bus_vars, cpu_vars, mem_op, bound, unmapped_word, mem_steps, tick_instr,
                   main_pc, tty_pc, stdin_pc, thread_active, receiver_queue, stdout, keys,
                   announced, held, script>>

SharedNext ==
    \/ \E w \in SharedWords : InstrWriteLow(TRANSMITTER_BUFFER_ADDRESS, w)
    \/ InstrWriteRest
    \/ /\ TtyCheck
       /\ UNCHANGED <<mem_op, bound, unmapped_word, mem_steps, announced, held, script>>
    \/ /\ TtyTryPrint
       /\ UNCHANGED <<mem_op, bound, unmapped_word, mem_steps, announced, held, script>>
    \/ /\ TtyTryReceive
       /\ UNCHANGED <<mem_op, bound, unmapped_word, mem_steps, announced, held, script>>

SpecShared == TtyInit /\ [][SharedNext]_vars

\* C17: the console thread never reads a partially executed instruction:
\* whenever its transmitter step reads XBUF while a store to XBUF is in
\* progress, the cell holds the word it held before the instruction or the
\* word the instruction stores.
C17_InstructionsAreAtomic ==
    [][(PrintTick /\ cpu_pc = "exec") =>
          cells["transmitter_buffer"].word \in {mem_op.ret, mem_op.value}]_vars

(***************************************************************************)
(* The stack by itself: pushes and pops on a running machine, from every   *)
(* even SP of StackSPs, in a debug build and in a release build.  frames   *)
(* records, for every word pushed and not yet popped, the word and the SP  *)
(* before its push.                                                        *)
(***************************************************************************)
MaxStackSteps == 4

\* SP at the start: where the decrement wraps (0), the bottom of memory,
\* the program's first stack, where the increment wraps (0xFFFE)
StackSPs == {0, 2, FIRST_STACK, PSW_ADDRESS}

StackWords == {0, 43981, 65535}

SP(K) == get_word_from_reg(K, STACK_POINTER_INDEX)

StackInit ==
    /\ BusIdle
    /\ ThreadIdle
    /\ mem_op = NoMemOp
    /\ bound = << >>
    /\ unmapped_word = << >>
    /\ mem_steps = 0
    /\ \E sp \in StackSPs, oc \in BOOLEAN :
          cpu = [CPU_new(oc) EXCEPT !.registers[STACK_POINTER_INDEX] = sp]
    /\ memory = [bytes |-> TrapStore(0, 0).bytes, mapped |-> TrapStore(0, 0).mapped]
    /\ cells = TrapStore(0, 0).cells
    /\ running = TRUE
    /\ cpu_op = NoCpuOp
    /\ frames = <<>>
    /\ cpu_steps = 0

StackPush(v) ==
    /\ SetMachine(push_stack(Machine, v))
    /\ cpu_op' = [op |-> "push", vector |-> 0, value |-> v]
    /\ frames' = IF push_stack(Machine, v).ok
                 THEN Append(frames, [sp |-> SP(Machine), value |-> v])
                 ELSE frames

StackPop ==
    /\ SetMachine(pop_stack(Machine).K)
    /\ cpu_op' = [op |-> "pop", vector |-> 0, value |-> pop_stack(Machine).ret]
    /\ frames' = IF frames = <<>> THEN frames ELSE SubSeq(frames, 1, Len(frames) - 1)

StackNext ==
    /\ cpu.ok
    /\ cpu_steps < MaxStackSteps
    /\ cpu_steps' = cpu_steps + 1
    /\ UNCHANGED <<bus_vars, thread_vars, mem_op, bound, unmapped_word, mem_steps,
                   announced, held, script>>
    /\ \/ \E v \in StackWords : StackPush(v)
       \/ StackPop

SpecStack == StackInit /\ [][StackNext]_vars

\* the last word pushed and not yet popped, and the SP before its push
TopPushed == frames[Len(frames)]

\* C18: a push that completes lowers SP by 2 (on 16 bits) and leaves its
\* word at M[SP]; a pop that completes raises SP by 2; and a pop that
\* completes after a push yields the word of that push and puts SP back to
\* its value before the push.
C18_PushPopRoundTrip ==
    [][(cpu_steps' # cpu_steps /\ cpu'.ok) =>
          /\ cpu_op'.op = "push" =>
                /\ SP(cpu') = (SP(cpu) - WORD_SIZE_BYTES) % WordModulus
                /\ Memory_read_word(Store', SP(cpu')).ret = cpu_op'.value
          /\ cpu_op'.op = "pop" =>
                /\ SP(cpu') = (SP(cpu) + WORD_SIZE_BYTES) % WordModulus
                /\ frames # <<>> =>
                      /\ cpu_op'.value = TopPushed.value
                      /\ SP(cpu') = TopPushed.sp]_vars

\* a word other than 0 was pushed and popped, in a release build from
\* SP = 0 (the push wraps)
C18_Witness ==
    /\ cpu_steps >= 2
    /\ cpu.ok
    /\ ~cpu.overflow_checks
    /\ cpu_op.op = "pop"
    /\ cpu_op.value = 43981
    /\ frames = <<>>
    /\ SP(cpu) = 0

(***************************************************************************)
(* Programs with operands: CPU::run on a loaded memory, as in SpecCpu,     *)
(* with programs that move, add, test, branch, call and return, and that   *)
(* read and write the PSW at 0xFFFE.  The general registers are those the  *)
(* CPU holds when run is called (run sets PC and SP only).                 *)
(***************************************************************************)
OperandPrograms ==
    {\* MOV #0xE0,@#0xFFFE; NOP; HALT
     <<5599, 224, 65534, 160, 0>>,
     \* MOV #4,@#0xFFFE; BEQ .+4; NOP; HALT
     <<5599, 4, 65534, 769, 160, 0>>,
     \* TST R3; MOV @#0xFFFE,R0; BNE .+4; NOP; HALT
     <<3011, 6080, 65534, 513, 160, 0>>,
     \* INC R5; MOV @#0xFFFE,R0; HALT
     <<2693, 6080, 65534, 0>>,
     \* JSR R5,sub; HALT; sub: NOP; RTS R5          (relative)
     <<2423, 2, 0, 160, 133>>,
     \* JSR R5,@#sub; HALT; sub: INC R0; RTS R5     (absolute)
     <<2399, 518, 0, 2688, 133>>,
     \* JSR R5,(R1); HALT; sub: NOP; RTS R5
     <<2377, 0, 160, 133>>,
     \* JSR PC,(R1); HALT; sub: NOP; RTS PC
     <<2505, 0, 160, 135>>,
     \* JSR PC,sub; HALT; sub: NOP; RTS PC          (relative)
     <<2551, 2, 0, 160, 135>>,
     \* JSR R1,(R1); HALT; sub: NOP; RTS R1
     <<2121, 0, 160, 129>>,
     \* MOV #5,R0; MOV R0,4(R2); HALT
     <<5568, 5, 4146, 4, 0>>,
     \* MOV 2(R2),R0; ADD #1,R0; HALT
     <<7296, 2, 26048, 1, 0>>,
     \* INC 2(R2); HALT
     <<2738, 2, 0, 0>>,
     \* ADD R0,2(R2); HALT
     <<24626, 2, 0, 0>>,
     \* BIS #64,@#1024; HALT
     <<21983, 64, 1024, 0, 0>>,
     \* MOV PC,R0; HALT
     <<4544, 0, 0>>,
     \* TST @2(R2); MOV #7,@#1028; HALT
     <<3066, 2, 5599, 7, 1028, 0>>}

\* R0 to R5 when run is called: a new CPU's, and a CPU's that ran before
RegisterFiles == {<<0, 0, 0, 0, 0, 0>>, <<7, 516, 1024, 0, 2, 43981>>}

OperandInit ==
    /\ BusIdle
    /\ mem_op = NoMemOp
    /\ bound = << >>
    /\ unmapped_word = << >>
    /\ mem_steps = 0
    /\ cells = CellsInit
    /\ \E program \in OperandPrograms :
          memory = [bytes |-> ImageBytes(ImageWords(program, 0)), mapped |-> << >>]
    /\ \E oc \in BOOLEAN, regs \in RegisterFiles :
          cpu = [CPU_new(oc) EXCEPT
                    !.registers = [i \in 0..(REG_COUNT - 1) |->
                                      IF i + 1 \in DOMAIN regs THEN regs[i + 1] ELSE 0]]
    /\ running = FALSE
    /\ cpu_op = NoCpuOp
    /\ frames = <<>>
    /\ cpu_steps = 0
    /\ cpu_pc = "off"
    /\ tick_instr = "none"
    /\ main_pc = "run_cpu"
    /\ tty_pc = "off"
    /\ stdin_pc = "off"
    /\ thread_active = FALSE
    /\ receiver_queue = BlockingQueue_new
    /\ stdout = <<>>
    /\ keys = 0
    /\ announced = FALSE
    /\ LocksIdle

OperandNext ==
    /\ UNCHANGED <<mem_op, bound, unmapped_word, mem_steps, announced, held, script>>
    /\ \/ CpuStart
       \/ CpuCheck
       \/ CpuExec
       \/ CpuPoll
       \/ CpuUnbind
       \/ \E v \in Vectors, L \in Levels : DeviceInterrupt(v, L)

SpecOperand == OperandInit /\ [][OperandNext]_vars

(***************************************************************************)
(* Claims about instructions with operands, checked under SpecOperand.     *)
(***************************************************************************)
PC(K) == get_word_from_reg(K, PROGRAM_COUNTER_INDEX)

\* the word the CPU fetches in this step
FetchedWord == WordAt(Store, PC(cpu))

\* the bytes of extension word an operand field uses: 2 for index and
\* index deferred (relative and relative deferred with PC), and for
\* immediate and absolute (autoincrement and its deferred form with PC)
ExtensionBytes(operand) ==
    IF (operand \div 8) % 8 \in {6, 7}
       \/ (operand % 8 = PROGRAM_COUNTER_INDEX /\ (operand \div 8) % 8 \in {2, 3})
    THEN WORD_SIZE_BYTES ELSE 0

\* the width of the instruction whose first word is command_word
Width(command_word) ==
    IF command(command_word) \in {"MOV", "ADD", "BIS"}
    THEN WORD_SIZE_BYTES + ExtensionBytes(src_operand(command_word))
                         + ExtensionBytes(dst_operand(command_word))
    ELSE IF command(command_word) \in {"INC", "TST"}
    THEN WORD_SIZE_BYTES + ExtensionBytes(adr_operand(command_word))
    ELSE WORD_SIZE_BYTES

\* the instructions that are neither branches, jumps, returns nor traps
SequentialInstructions == {"HALT", "WAIT", "RESET", "NOP", "MOV", "ADD", "BIS", "INC", "TST"}

\* this step executes an instruction to its end
Executes == cpu_steps' # cpu_steps /\ cpu'.ok

\* C20: every executed instruction that is not a branch, a jump, a return
\* or a trap leaves PC at its address plus its width: 2, plus 2 for each
\* operand field that uses an extension word, each such word being
\* consumed once, also when the destination is read and written.
C20_PcAdvancesByWidth ==
    [][(Executes /\ tick_instr' \in SequentialInstructions) =>
          PC(cpu') = (PC(cpu) + Width(FetchedWord)) % WordModulus]_vars

\* the top frame is that of a JSR whose register is reg, and the
\* subroutine's body has left SP, and the register unless it is PC, as
\* they were at its entry
ReturnsFrom(reg) ==
    /\ frames # <<>>
    /\ "reg" \in DOMAIN TopFrame
    /\ TopFrame.reg = reg
    /\ SP(cpu) = TopFrame.entry_sp
    /\ reg # PROGRAM_COUNTER_INDEX => get_word_from_reg(cpu, reg) = TopFrame.entry_reg

\* C19: an RTS Rn that returns from a JSR Rn,dst whose body left SP and Rn
\* as they were at entry puts PC at the instruction following the JSR,
\* after its extension word, gives Rn the value it had before the JSR,
\* and SP its value before the JSR.
C19_JsrRtsRoundTrip ==
    [][(Executes /\ tick_instr' = "RTS" /\ ReturnsFrom(low_reg_operand(FetchedWord))) =>
          /\ PC(cpu') = (TopFrame.pc + WORD_SIZE_BYTES
                           + ExtensionBytes(adr_operand(TopFrame.command))) % WordModulus
          /\ TopFrame.reg # PROGRAM_COUNTER_INDEX =>
                get_word_from_reg(cpu', TopFrame.reg) = TopFrame.reg_value
          /\ SP(cpu') = TopFrame.sp]_vars

\* the positions of the CPU loop, from the start to the HALT's effect
LoopPositions == {"check", "exec", "poll"}

\* the PSW: the word of the CPU's status cell
PSW == cells["status"].word

\* this step executes the three-word instruction whose words are
\* command_word, any word, and address
ExecutesAt(command_word, address) ==
    /\ Executes
    /\ FetchedWord = command_word
    /\ WordAt(Store, PC(cpu) + 2 * WORD_SIZE_BYTES) = address

\* this step executes the two-word instruction command_word, address
ExecutesOn(command_word, address) ==
    /\ Executes
    /\ FetchedWord = command_word
    /\ WordAt(Store, PC(cpu) + WORD_SIZE_BYTES) = address

\* C13: from the CPU's start to its HALT 0xFFFE is bound to the PSW; a
\* program read of 0xFFFE (MOV @#0xFFFE,R0) yields the PSW with the flags
\* of the last instruction; a program write of w to 0xFFFE
\* (MOV #w,@#0xFFFE) makes w the PSW, which later condition tests and the
\* priority check of the poll use; after the HALT the binding is released
\* and 0xFFFE reads as the final PSW.
C13_PswAtFFFE ==
    [][/\ cpu_pc' \in LoopPositions =>
             /\ PSW_ADDRESS \in DOMAIN memory'.mapped
             /\ memory'.mapped[PSW_ADDRESS] = "status"
       /\ ExecutesOn(6080, PSW_ADDRESS) => get_word_from_reg(cpu', 0) = PSW
       /\ ExecutesAt(5599, PSW_ADDRESS) => PSW' = WordAt(Store, PC(cpu) + WORD_SIZE_BYTES)
       /\ (Executes /\ tick_instr' \in {"BEQ", "BNE"}) =>
             (PC(cpu') # (PC(cpu) + WORD_SIZE_BYTES) % WordModulus)
                 = (get_n_bit(PSW, ZERO_FLAG_INDEX) = (tick_instr' = "BEQ"))
       /\ \A L \in AcceptedLevels : L > (PSW \div 32) % 8
       /\ cpu_pc' = "done" =>
             /\ PSW_ADDRESS \notin DOMAIN memory'.mapped
             /\ WordAt(Store', PSW_ADDRESS) = PSW']_vars

(***************************************************************************)
(* The test driver (test_programs.rs): test_cpu runs the ADD program and   *)
(* then the SUB program on one CPU object, each in a memory of its own.    *)
(* The driver's operands are 3 and 3; here they are any two of ArithWords. *)
(* cpu_steps counts the instructions of the current run.                   *)
(***************************************************************************)
ArithWords == {0, 1, 2, 3, 4, 32768, 65535}

ADD_OPCODE == 24576

SUB_OPCODE == 57344

mov_const(reg) == 5568 + reg

make_two_cmd(opcode, src, dst) == opcode + src * 64 + dst

\* the five words make_two_operands_test writes from FIRST_COMMAND on
make_two_operands_test(opcode, src, dst) ==
    [bytes |-> ImageBytes(
                  (FIRST_COMMAND :> mov_const(0)) @@ (FIRST_COMMAND + 2 :> dst)
                  @@ (FIRST_COMMAND + 4 :> mov_const(1)) @@ (FIRST_COMMAND + 6 :> src)
                  @@ (FIRST_COMMAND + 8 :> make_two_cmd(opcode, 1, 0))),
     mapped |-> << >>]

make_add_test(a, b) == make_two_operands_test(ADD_OPCODE, b, a)

make_sub_test(a, b) == make_two_operands_test(SUB_OPCODE, b, a)

DriverInit ==
    /\ BusIdle
    /\ mem_op = NoMemOp
    /\ bound = << >>
    /\ unmapped_word = << >>
    /\ mem_steps = 0
    /\ cells = CellsInit
    /\ memory = Memory_new
    /\ \E oc \in BOOLEAN : cpu = CPU_new(oc)
    /\ running = FALSE
    /\ cpu_op = NoCpuOp
    /\ frames = <<>>
    /\ cpu_steps = 0
    /\ cpu_pc = "off"
    /\ tick_instr = "none"
    /\ main_pc = "test_mov_add"
    /\ tty_pc = "off"
    /\ stdin_pc = "off"
    /\ thread_active = FALSE
    /\ receiver_queue = BlockingQueue_new
    /\ stdout = <<>>
    /\ keys = 0
    /\ announced = FALSE
    /\ LocksIdle

\* run_and_dump on the memory image: CPU::run begins on the CPU as the
\* earlier run, if any, left it
RunAndDump(image, then) ==
    /\ SetMachine(cpu_bind(run([Machine EXCEPT !.m = [bytes |-> image.bytes,
                                                      mapped |-> image.mapped,
                                                      cells |-> cells]])))
    /\ cpu_pc' = "check"
    /\ cpu_op' = [op |-> "start", vector |-> 0]
    /\ cpu_steps' = 0
    /\ main_pc' = then
    /\ UNCHANGED <<bus_vars, frames, tick_instr, tty_pc, stdin_pc, thread_active,
                   receiver_queue, stdout, keys>>

\* test_mov_add(cpu, a, b)
TestMovAdd(a, b) ==
    /\ main_pc = "test_mov_add"
    /\ cpu_pc = "off"
    /\ RunAndDump(make_add_test(a, b), "test_mov_sub")

\* test_mov_sub(cpu, a, b), after the ADD program's run has returned
TestMovSub(a, b) ==
    /\ main_pc = "test_mov_sub"
    /\ cpu_pc = "done"
    /\ RunAndDump(make_sub_test(a, b), "tested")

DriverNext ==
    /\ UNCHANGED <<mem_op, bound, unmapped_word, mem_steps, announced, held, script>>
    /\ \/ \E a \in ArithWords, b \in ArithWords : TestMovAdd(a, b)
       \/ \E a \in ArithWords, b \in ArithWords : TestMovSub(a, b)
       \/ CpuCheck
       \/ CpuExec
       \/ CpuPoll
       \/ CpuUnbind

SpecDriver == DriverInit /\ [][DriverNext]_vars

\* the operands a and b of the loaded test program, and its third command
OperandA == WordAt(Store, FIRST_COMMAND + 2)

OperandB == WordAt(Store, FIRST_COMMAND + 6)

LoadedCommand == WordAt(Store, FIRST_COMMAND + 8)

Flag(n) == get_n_bit(PSW, n)

\* the run of the loaded program has returned
Halted == cpu_pc = "done" /\ ~running

\* C21: the program MOV #a,R0; MOV #b,R1; ADD R1,R0; HALT runs without a
\* fatal error and ends halted with R0 = (a + b) mod 2^16, R1 = b, C = 1
\* iff a + b >= 2^16, Z = 1 iff the result is 0 and N = bit 15 of the
\* result; for a = 3 and b = 4, R0 = 7 and Z = N = C = V = 0.
C21_AddProgram ==
    LoadedCommand = make_two_cmd(ADD_OPCODE, 1, 0) =>
        /\ cpu.ok
        /\ Halted =>
              /\ get_word_from_reg(cpu, 0) = (OperandA + OperandB) % WordModulus
              /\ get_word_from_reg(cpu, 1) = OperandB
              /\ Flag(CARRY_FLAG_INDEX) = (OperandA + OperandB >= WordModulus)
              /\ Flag(ZERO_FLAG_INDEX) = ((OperandA + OperandB) % WordModulus = 0)
              /\ Flag(NEGATIVE_FLAG_INDEX)
                    = get_n_bit((OperandA + OperandB) % WordModulus, 15)
              /\ (OperandA = 3 /\ OperandB = 4) =>
                    /\ get_word_from_reg(cpu, 0) = 7
                    /\ \A n \in 0..3 : ~Flag(n)

\* the ADD program has ended with a carry out of 0xFFFF + 1
C21_Witness ==
    /\ LoadedCommand = make_two_cmd(ADD_OPCODE, 1, 0)
    /\ Halted
    /\ OperandA = 65535
    /\ OperandB = 1
    /\ get_word_from_reg(cpu, 0) = 0
    /\ Flag(CARRY_FLAG_INDEX)

\* C22: the program MOV #a,R0; MOV #b,R1; SUB R1,R0; HALT runs without a
\* fatal error and ends halted with R0 = (a - b) mod 2^16 for all words a
\* and b, a < b included; for a = 1 and b = 2, R0 = 0xFFFF, N = 1, Z = 0,
\* C = 1 and V = 0.
C22_SubProgram ==
    LoadedCommand = make_two_cmd(SUB_OPCODE, 1, 0) =>
        /\ cpu.ok
        /\ Halted =>
              /\ get_word_from_reg(cpu, 0) = (OperandA - OperandB) % WordModulus
              /\ (OperandA = 1 /\ OperandB = 2) =>
                    /\ get_word_from_reg(cpu, 0) = 65535
                    /\ Flag(NEGATIVE_FLAG_INDEX)
                    /\ ~Flag(ZERO_FLAG_INDEX)
                    /\ Flag(CARRY_FLAG_INDEX)
                    /\ ~Flag(OVERFLOW_FLAG_INDEX)

\* this step begins a run of the CPU
RunBegins == cpu_op'.op = "start" /\ cpu_pc # "check" /\ cpu_pc' = "check"

\* C26: every run of the CPU begins with PC = 0x0200, SP = 0x0200 and
\* PSW = 0, running and not waiting, the second run on a CPU object that
\* has run a program to its HALT included.
C26_RunStartsFromReset ==
    [][RunBegins =>
          /\ PC(cpu') = FIRST_COMMAND
          /\ SP(cpu') = FIRST_STACK
          /\ PSW' = 0
          /\ ~cpu'.waiting
          /\ running']_vars

(***************************************************************************)
(* Memory's entry points called with addresses inside and outside the      *)
(* 64 KiB of the machine.  A call whose assertion fails is fatal: the      *)
(* process ends, so nothing follows it.                                    *)
(***************************************************************************)
MaxAccessOps == 3

\* 0x0100, the last word of the 64 KiB, the first address beyond them, and
\* the last two addresses of the byte array
AccessAddrs == {256, 65534, 65536, 131070, 131072}

AccessWords == {4779}

AccessBytes == {18, 205}

EntryPoints == {"read_byte", "write_byte", "read_word", "write_word", "map_word",
                "unmap_word"}

\* the entry point op called on the address a
Entry(op, a) ==
    CASE op = "read_byte" -> Memory_read_byte(Store, a)
      [] op = "write_byte" -> Memory_write_byte(Store, a, 205)
      [] op = "read_word" -> Memory_read_word(Store, a)
      [] op = "write_word" -> Memory_write_word(Store, a, 4779)
      [] op = "map_word" -> map_word(Store, a, "cell1")
      [] op = "unmap_word" -> unmap_word(Store, a)

\* a call that fails an assertion
MemFatal(op, a) ==
    /\ ~Entry(op, a).ok
    /\ SetStore(Entry(op, a).m)
    /\ mem_op' = [op |-> op, address |-> a, cell |-> "", value |-> 0, ret |-> 0,
                  ok |-> FALSE]
    /\ UNCHANGED <<bound, unmapped_word>>

AccessNext ==
    /\ UNCHANGED <<bus_vars, cpu_vars, thread_vars, announced, held, script>>
    /\ mem_op.ok
    /\ mem_steps < MaxAccessOps
    /\ mem_steps' = mem_steps + 1
    /\ \/ \E a \in AccessAddrs, c \in MapCells : MemMapWord(a, c)
       \/ \E a \in AccessAddrs : MemUnmapWord(a)
       \/ \E a \in AccessAddrs : MemReadWord(a)
       \/ \E a \in AccessAddrs, w \in AccessWords : MemWriteWord(a, w)
       \/ \E a \in AccessAddrs, d \in {0, 1} : MemReadByte(a + d)
       \/ \E a \in AccessAddrs, d \in {0, 1}, b \in AccessBytes : MemWriteByte(a + d, b)
       \/ \E op \in EntryPoints, a \in AccessAddrs, d \in {0, 1} : MemFatal(op, a + d)

SpecAccess == MemInit /\ [][AccessNext]_vars

\* no cell is bound at the word address a
Unmapped(a) == a \notin DOMAIN memory'.mapped

\* C24: on an unmapped word, after write_word(a, w) read_byte(a) is the low
\* byte of w, read_byte(a + 1) its high byte and read_word(a) is w; after
\* write_byte(a, lo) followed by write_byte(a + 1, hi), read_word(a) is
\* hi * 256 + lo.
C24_EndianRoundTrip ==
    [][/\ (mem_op'.op = "write_word" /\ mem_op'.ok /\ mem_steps' # mem_steps
             /\ Unmapped(mem_op'.address)) =>
             /\ Memory_read_byte(Store', mem_op'.address).ret = low(mem_op'.value)
             /\ Memory_read_byte(Store', mem_op'.address + 1).ret = high(mem_op'.value)
             /\ Memory_read_word(Store', mem_op'.address).ret = mem_op'.value
       /\ (mem_op.op = "write_byte" /\ mem_op'.op = "write_byte" /\ mem_op'.ok
             /\ mem_steps' # mem_steps /\ mem_op.address % 2 = 0
             /\ mem_op'.address = mem_op.address + 1 /\ Unmapped(mem_op.address)) =>
             /\ Memory_read_word(Store', mem_op.address).ok
             /\ Memory_read_word(Store', mem_op.address).ret
                   = mem_op'.value * 256 + mem_op.value]_vars

\* the bytes 0x12 and 0xCD have been written to a word's low and high
\* halves, in this order, and the word reads 0xCD12
C24_Witness ==
    /\ mem_op.op = "write_byte"
    /\ mem_op.address = 257
    /\ mem_op.value = 205
    /\ 256 \notin DOMAIN memory.mapped
    /\ ByteAt(memory.bytes, 256) = 18
    /\ WordAt(Store, 256) = 52498

\* C25: an entry point accepts an address only if it is below 0x10000; a
\* call with an address of 0x10000 or more is fatal and leaves the bytes,
\* the bindings and the cells as they were.
C25_AddressBelow64K ==
    [][mem_steps' # mem_steps =>
          /\ mem_op'.ok => mem_op'.address < 65536
          /\ mem_op'.address >= 65536 =>
                /\ ~mem_op'.ok
                /\ memory' = memory
                /\ cells' = cells]_vars

(***************************************************************************)
(* Programs of DIV, MARK, TRAP, EMT and the branches, each run from the    *)
(* CPU's start in a memory that holds the program at FIRST_COMMAND and     *)
(* the vectors of EMT and TRAP.                                            *)
(***************************************************************************)
EMT_VECTOR == 24

TRAP_VECTOR == 28

\* the values MOV #w,@#0xFFFE gives the PSW before a branch on C
BranchPSWs == {0, 1, 14, 15}

\* the offsets of the branches taken
BranchOffsets == 0..255

NoRegisters == <<0, 0, 0, 0, 0, 0>>

\* a program and the values of R0-R5 it starts with
Case(program, registers) == [program |-> program, registers |-> registers]

\* MOV #10,R0; MOV #0,R1; DIV R1,R0; HALT, and DIV #0,R2, DIV (R4),R2 on a
\* zero word, DIV R4,R2 with a divisor of 2, DIV R0,R1 (an odd register)
DivCases ==
    {Case(<<5568, 10, 5569, 0, 29185, 0>>, NoRegisters),
     Case(<<29335, 0, 0>>, <<0, 0, 1024, 3, 0, 0>>),
     Case(<<29324, 0>>, <<0, 0, 43981, 65535, 1024, 0>>),
     Case(<<29316, 0>>, <<0, 0, 1025, 0, 2, 0>>),
     Case(<<29248, 0>>, <<7, 7, 0, 0, 0, 0>>)}

\* MARK 1 and MARK 2 followed by three words, R5 = 0x0300; MARK 0x3F with
\* SP + 126 beyond the last word when SP starts at 0xFFF0
MarkCases ==
    {Case(<<3329, 4369, 8738, 13107>>, <<0, 0, 0, 0, 0, 768>>),
     Case(<<3330, 4369, 8738, 13107>>, <<0, 0, 0, 0, 0, 768>>),
     Case(<<5574, 65520, 3391>>, <<0, 0, 0, 0, 0, 768>>)}

\* TRAP and EMT, with a zero low byte and with a code in it
TrapCases ==
    {Case(<<w>>, NoRegisters) : w \in {35072, 35075, 34816, 35071}}

\* MOV #w,@#0xFFFE, then BCS, BCC, BNE or BEQ over one word; and a branch
\* of each kind with every offset
BranchCases ==
    {Case(<<5599, w, PSW_ADDRESS, b, 0, 0>>, NoRegisters) :
        w \in BranchPSWs, b \in {34561, 34305, 513, 769}}
    \cup {Case(<<256 + o>>, NoRegisters) : o \in BranchOffsets}
    \cup {Case(<<b + o>>, NoRegisters) : b \in {512, 768, 34304, 34560}, o \in {2, 255}}

\* the counts a SOB loop is entered with: R0 holds the count and R2 a copy
\* of it that no instruction touches
SobCounts == {1, 2, 3, 4, 32768, 65535}

\* loop: INC R1; SOB R0,loop; HALT, and the loop of a SOB alone,
\* SOB R0,.; HALT
SobCases ==
    {Case(<<2689, 32258, 0>>, <<k, 0, k, 0, 0, 0>>) : k \in SobCounts}
    \cup {Case(<<32257, 0>>, <<k, 0, k, 0, 0, 0>>) : k \in SobCounts}

\* MOV #psw,-(SP); MOV #0x020C,-(SP); RTT or RTI; HALT; at 0x020C: NOP;
\* HALT, for a PSW with the T bit (0x0010) and for one without
ReturnCases ==
    {Case(<<5606, psw, 5606, 524, r, 0, 160, 0>>, NoRegisters) :
        psw \in {16, 17, 1}, r \in {2, 6}}

\* INC (R2)+, INC -(R2), ADD R0,(R2)+ and ADD R0,-(R2), each followed by
\* HALT, with R0 = 7 and R2 = 0x0402; the words around 0x0402 are zero
RmwCases ==
    {Case(<<w, 0>>, <<7, 0, 1026, 0, 0, 0>>) : w \in {2706, 2722, 24594, 24610}}

ControlCases ==
    DivCases \cup MarkCases \cup TrapCases \cup BranchCases \cup SobCases \cup ReturnCases
    \cup RmwCases

\* the program at FIRST_COMMAND; the handlers of BPT, EMT and TRAP and
\* their PSWs in the vectors
ControlImage(program) ==
    [a \in {FIRST_COMMAND + 2 * (i - 1) : i \in 1..Len(program)} |->
        program[((a - FIRST_COMMAND) \div 2) + 1]]
    @@ (BPT_VECTOR :> HandlerOf(BPT_VECTOR))
    @@ (EMT_VECTOR :> HandlerOf(EMT_VECTOR)) @@ (EMT_VECTOR + 2 :> 1)
    @@ (TRAP_VECTOR :> HandlerOf(TRAP_VECTOR)) @@ (TRAP_VECTOR + 2 :> 2)

ControlInit ==
    /\ BusIdle
    /\ mem_op = NoMemOp
    /\ bound = << >>
    /\ unmapped_word = << >>
    /\ mem_steps = 0
    /\ cells = CellsInit
    /\ \E c \in ControlCases, oc \in BOOLEAN :
          /\ memory = [bytes |-> ImageBytes(ControlImage(c.program)), mapped |-> << >>]
          /\ cpu = [CPU_new(oc) EXCEPT
                       !.registers = [i \in 0..(REG_COUNT - 1) |->
                                         IF i + 1 \in DOMAIN c.registers
                                         THEN c.registers[i + 1] ELSE 0]]
    /\ running = FALSE
    /\ cpu_op = NoCpuOp
    /\ frames = <<>>
    /\ cpu_steps = 0
    /\ cpu_pc = "off"
    /\ tick_instr = "none"
    /\ main_pc = "run_cpu"
    /\ tty_pc = "off"
    /\ stdin_pc = "off"
    /\ thread_active = FALSE
    /\ receiver_queue = BlockingQueue_new
    /\ stdout = <<>>
    /\ keys = 0
    /\ announced = FALSE
    /\ LocksIdle

ControlNext ==
    /\ UNCHANGED <<mem_op, bound, unmapped_word, mem_steps, announced, held, script>>
    /\ \/ CpuStart
       \/ CpuCheck
       \/ CpuExec
       \/ CpuPoll
       \/ CpuUnbind

SpecControl == ControlInit /\ [][ControlNext]_vars

\* this step fetches an instruction that decodes to name, whether or not
\* its execution completes
Attempts(name) == cpu_steps' # cpu_steps /\ tick_instr' = name

\* PC after the fetch of this step's instruction word
PcAfterFetch == (PC(cpu) + WORD_SIZE_BYTES) % WordModulus

\* the value of the source operand of the DIV this step fetches
Divisor == get_word_by_operand(next_command(Machine).K, adr_operand(FetchedWord)).ret

\* C23: DIV src,Rn (Rn even) with a source value of 0 completes, sets C and
\* V, leaves Rn, Rn+1, Z, N and memory as they were, and the CPU goes on
\* to the instruction that follows the DIV and its extension word.
C23_DivideByZero ==
    [][(Attempts("DIV") /\ Divisor = 0 /\ reg_operand(FetchedWord) % 2 = 0) =>
          /\ cpu'.ok
          /\ get_n_bit(PSW', CARRY_FLAG_INDEX)
          /\ get_n_bit(PSW', OVERFLOW_FLAG_INDEX)
          /\ get_n_bit(PSW', ZERO_FLAG_INDEX) = get_n_bit(PSW, ZERO_FLAG_INDEX)
          /\ get_n_bit(PSW', NEGATIVE_FLAG_INDEX) = get_n_bit(PSW, NEGATIVE_FLAG_INDEX)
          /\ \A d \in {0, 1} :
                get_word_from_reg(cpu', reg_operand(FetchedWord) + d)
                   = get_word_from_reg(cpu, reg_operand(FetchedWord) + d)
          /\ memory' = memory
          /\ running'
          /\ cpu_pc' = "poll"
          /\ PC(cpu') = (PcAfterFetch + ExtensionBytes(adr_operand(FetchedWord)))
                           % WordModulus]_vars

\* the spec's program has run its DIV: R0 = 10, R1 = 0, C and V set, Z as
\* MOV #0,R1 left it, and the CPU is about to go on
C23_Witness ==
    /\ tick_instr = "DIV"
    /\ cpu_pc = "poll"
    /\ WordAt(Store, FIRST_COMMAND + 8) = 29185
    /\ get_word_from_reg(cpu, 0) = 10
    /\ get_word_from_reg(cpu, 1) = 0
    /\ PSW = 7

\* the saved PC and PSW are on the stack and PC and PSW are the words of
\* the vector v
TrapsThrough(v) ==
    /\ cpu'.ok
    /\ SP(cpu') = SP(cpu) - 4
    /\ WordAt(Store', SP(cpu) - 2) = PSW
    /\ WordAt(Store', SP(cpu) - 4) = PcAfterFetch
    /\ PC(cpu') = WordAt(Store, v)
    /\ PSW' = WordAt(Store, v + 2)

\* C27: TRAP (0x8900-0x89FF) performs the trap sequence through the vector
\* 0x001C and EMT (0x8800-0x88FF) through the vector 0x0018.
C27_TrapAndEmtVectors ==
    [][/\ ( /\ cpu_steps' # cpu_steps
            /\ FetchedWord \in 35072..35327) => TrapsThrough(TRAP_VECTOR)
       /\ ( /\ cpu_steps' # cpu_steps
            /\ FetchedWord \in 34816..35071) => TrapsThrough(EMT_VECTOR)]_vars

\* this step's branch was taken: PC is not the address after the branch
Taken == PC(cpu') # PcAfterFetch

\* C28: a BCS/BLO (0x8700-0x87FF) that completes branches iff C = 1 and a
\* BHIS/BCC (0x8600-0x86FF) that completes branches iff C = 0, so that for
\* every PSW exactly one of the two is taken (offsets other than 0, for
\* which taken and not taken coincide).
C28_CarryBranches ==
    [][/\ (Executes /\ FetchedWord \in 34561..34815) =>
             (Taken <=> get_n_bit(PSW, CARRY_FLAG_INDEX))
       /\ (Executes /\ FetchedWord \in 34305..34559) =>
             (Taken <=> ~get_n_bit(PSW, CARRY_FLAG_INDEX))]_vars

\* the sign-extended 8-bit offset of a branch, as an integer
signext8(o) == IF o >= 128 THEN o - 256 ELSE o

\* the address a branch fetched in this step goes to when taken
BranchTarget == (PcAfterFetch + 2 * signext8(low(FetchedWord))) % WordModulus

Branches == {"BR", "BNE", "BEQ", "BHIS/BCC", "BCS/BLO"}

\* C29: a branch with the 8-bit offset o completes without a fatal error
\* for every o in 0..255; taken, it sets PC to
\* (PC after the fetch + 2 * signext8(o)) mod 2^16; not taken, it leaves PC
\* at the address after the fetch and changes nothing else; BR is always
\* taken.
C29_BranchTarget ==
    [][(cpu_steps' # cpu_steps /\ tick_instr' \in Branches) =>
          /\ cpu'.ok
          /\ \/ PC(cpu') = BranchTarget
             \/ /\ PC(cpu') = PcAfterFetch
                /\ \A i \in 0..6 : cpu'.registers[i] = cpu.registers[i]
                /\ memory' = memory
                /\ cells' = cells
                /\ running' = running
          /\ tick_instr' = "BR" => PC(cpu') = BranchTarget]_vars

\* C30: MARK n sets SP to PC + 2n, PC being the address that follows the
\* MARK word, then PC to R5, then R5 to the word popped at the new SP, SP
\* going up by 2.
C30_Mark ==
    [][Attempts("MARK") =>
          /\ cpu'.ok
          /\ PC(cpu') = get_word_from_reg(cpu, MARK_POINTER_INDEX)
          /\ get_word_from_reg(cpu', MARK_POINTER_INDEX)
                = WordAt(Store, (PcAfterFetch + 2 * adr_operand(FetchedWord))
                                   % WordModulus)
          /\ SP(cpu') = (PcAfterFetch + 2 * adr_operand(FetchedWord) + 2)
                           % WordModulus]_vars

\* the register of the SOB this step fetches
SobRegister == reg_operand(FetchedWord)

\* C31: a SOB Rn,off entered with Rn >= 1 completes, decrements Rn by 1
\* and sets PC to the post-fetch PC - 2 * off iff the new Rn is not zero,
\* and leaves PC after the fetch otherwise; a loop of off instruction
\* words closed by the SOB and entered with Rn = k (the copy of k is in
\* R2) falls through with Rn = 0 after off * k instructions, that is after
\* k runs of its body, the k increments of R1 done.
C31_SobLoop ==
    [][(Attempts("SOB") /\ get_word_from_reg(cpu, SobRegister) >= 1) =>
          /\ cpu'.ok
          /\ get_word_from_reg(cpu', SobRegister)
                = get_word_from_reg(cpu, SobRegister) - 1
          /\ IF get_word_from_reg(cpu', SobRegister) # 0
             THEN PC(cpu') = (PcAfterFetch - 2 * adr_operand(FetchedWord)) % WordModulus
             ELSE /\ PC(cpu') = PcAfterFetch
                  /\ cpu_steps' = adr_operand(FetchedWord) * get_word_from_reg(cpu, 2)
                  /\ adr_operand(FetchedWord) = 2 =>
                        get_word_from_reg(cpu, 1) = get_word_from_reg(cpu, 2)]_vars

\* the loop INC R1; SOB R0,loop entered with R0 = 2 has fallen through
\* after two runs of its body
C31_Witness ==
    /\ tick_instr = "SOB"
    /\ cpu_pc = "poll"
    /\ WordAt(Store, FIRST_COMMAND) = 2689
    /\ get_word_from_reg(cpu, 0) = 0
    /\ get_word_from_reg(cpu, 1) = 2
    /\ get_word_from_reg(cpu, 2) = 2
    /\ PC(cpu) = FIRST_COMMAND + 4

\* this step ends an iteration of the CPU loop: the bus is polled and the
\* T bit is looked at
EndsIteration == cpu_pc = "poll" /\ cpu_pc' # "poll"

\* this step performs the trap sequence through the BPT vector
TraceTrapTaken ==
    /\ PC(cpu') = WordAt(Store, BPT_VECTOR)
    /\ SP(cpu') = SP(cpu) - 4
    /\ WordAt(Store', SP(cpu) - 4) = PC(cpu)
    /\ WordAt(Store', SP(cpu) - 2) = PSW

\* C32: at the end of the iteration that executed RTT with the T bit set
\* in the restored PSW no trap is taken; at the end of the iteration that
\* executed RTI, or any other instruction that is not a trap, with the T
\* bit set the trap through 0x000C is taken.
C32_RttDefersTrace ==
    [][(EndsIteration /\ cpu'.ok /\ get_n_bit(PSW, TRAP_FLAG_INDEX)) =>
          /\ tick_instr = "RTT" =>
                (PC(cpu') = PC(cpu) /\ SP(cpu') = SP(cpu) /\ PSW' = PSW)
          /\ tick_instr \notin ({"RTT", "none"} \cup TrapInstructions) =>
                TraceTrapTaken]_vars

(***************************************************************************)
(* The console with every register stored to: the program stores to RCSR,  *)
(* XCSR, RBUF and XBUF (two different bytes), loads all four, and two      *)
(* keys are typed.  The console thread is in its loop, as under SpecTty.   *)
(***************************************************************************)
MaxConsoleKeys == 2

\* the keys typed: 'A' and 'B'
ConsoleKeys == {65, 66}

\* the program's stores: interrupt enable into RCSR and XCSR, zero into
\* RBUF, 'a' and 'b' into XBUF
ConsoleStores ==
    {<<RECEIVER_STATUS_ADDRESS, 64>>, <<TRANSMITTER_STATUS_ADDRESS, 64>>,
     <<RECEIVER_BUFFER_ADDRESS, 0>>, <<TRANSMITTER_BUFFER_ADDRESS, 97>>,
     <<TRANSMITTER_BUFFER_ADDRESS, 98>>}

\* blocking_get_next_char returns the key c, which is queued
ConsoleStdinRead(c) ==
    /\ stdin_pc = "read"
    /\ keys < MaxConsoleKeys
    /\ keys' = keys + 1
    /\ receiver_queue' = push(receiver_queue, c)
    /\ stdin_pc' = "check"
    /\ UNCHANGED <<bus_vars, memory, cells, cpu_vars, cpu_pc, tick_instr, main_pc,
                   tty_pc, thread_active, stdout>>

ConsoleNext ==
    \/ /\ \E s \in ConsoleStores : ProgWriteWord(s[1], s[2])
       /\ UNCHANGED <<bus_vars, cpu_vars, thread_vars, announced, held, script>>
    \/ /\ \E a \in ProgLoads : ProgReadWord(a)
       /\ UNCHANGED <<bus_vars, cpu_vars, thread_vars, announced, held, script>>
    \/ /\ TtyCheck
       /\ UNCHANGED <<mem_op, bound, unmapped_word, mem_steps, announced, held, script>>
    \/ /\ TtyTryPrint
       /\ UNCHANGED <<mem_op, bound, unmapped_word, mem_steps, announced, held, script>>
    \/ /\ TtyReceiveTick
       /\ UNCHANGED <<mem_op, bound, unmapped_word, mem_steps, held, script>>
    \/ /\ StdinCheck
       /\ UNCHANGED <<mem_op, bound, unmapped_word, mem_steps, announced, held, script>>
    \/ /\ \E c \in ConsoleKeys : ConsoleStdinRead(c)
       /\ UNCHANGED <<mem_op, bound, unmapped_word, mem_steps, announced, held, script>>

SpecConsole == TtyInit /\ [][ConsoleNext]_vars

(***************************************************************************)
(* Claims about the program's stores to the console, checked under         *)
(* SpecConsole.                                                            *)
(***************************************************************************)
\* the cell's bit n is the same after this step
KeepsBit(cell, n) == get_n_bit(cells'[cell].word, n) = get_n_bit(cells[cell].word, n)

\* C33: a program store to RCSR or to XCSR gives bit 6 (RIE/TIE) the
\* stored value and leaves bit 7 (RDY/XRDY) as the device last set it; a
\* program store to RBUF leaves the received byte in RBUF as it was.
C33_ProgramWritableBits ==
    [][/\ ProgAccess("write_word", RECEIVER_STATUS_ADDRESS)
             => /\ KeepsBit("receiver_status", RDY_STATUS_BIT)
                /\ get_n_bit(cells'["receiver_status"].word, INT_STATUS_BIT)
                      = get_n_bit(mem_op'.value, INT_STATUS_BIT)
       /\ ProgAccess("write_word", TRANSMITTER_STATUS_ADDRESS)
             => /\ KeepsBit("transmitter_status", RDY_STATUS_BIT)
                /\ get_n_bit(cells'["transmitter_status"].word, INT_STATUS_BIT)
                      = get_n_bit(mem_op'.value, INT_STATUS_BIT)
       /\ ProgAccess("write_word", RECEIVER_BUFFER_ADDRESS)
             => low(cells'["receiver_buffer"].word) = low(cells["receiver_buffer"].word)]_vars

\* the destination field of the INC or ADD this step fetches, its register
\* and its mode
RmwOperand == FetchedWord % 64

RmwRegister == register_from_operand(RmwOperand)

RmwMode == (RmwOperand \div 8) % 8

\* the address the destination operand is read from: the register's value
\* for autoincrement, the stepped value for autodecrement
RmwAddress ==
    IF RmwMode = 2 THEN get_word_from_reg(cpu, RmwRegister)
    ELSE (get_word_from_reg(cpu, RmwRegister) - WORD_SIZE_BYTES) % WordModulus

\* what the instruction adds to the operand: 1 for INC, the source
\* register for ADD
RmwAddend ==
    IF command(FetchedWord) = "INC" THEN 1
    ELSE get_word_from_reg(cpu, register_from_operand(src_operand(FetchedWord)))

\* C34: an INC or ADD whose destination is (Rn)+ or -(Rn) completes, steps
\* Rn once by 2 (up for autoincrement, down for autodecrement) and stores
\* its result at the address the operand was read from.
C34_ReadModifyWriteOnce ==
    [][((Attempts("INC") \/ Attempts("ADD")) /\ RmwMode \in {2, 4}) =>
          /\ cpu'.ok
          /\ get_word_from_reg(cpu', RmwRegister)
                = IF RmwMode = 2
                  THEN get_word_from_reg(cpu, RmwRegister) + WORD_SIZE_BYTES
                  ELSE get_word_from_reg(cpu, RmwRegister) - WORD_SIZE_BYTES
          /\ WordAt(Store', RmwAddress)
                = (WordAt(Store, RmwAddress) + RmwAddend) % WordModulus]_vars

(***************************************************************************)
(* The machine's threads under a fair scheduler: a thread whose next step  *)
(* is not blocked eventually takes it.  A thread's steps are the steps     *)
(* that move its position, and each thread is blocked only where its code  *)
(* waits: CPU::run for nothing, Pdp11::run in join(), the console thread   *)
(* in stdin_loop.join(), the keyboard thread in the host's read.  The      *)
(* host's keyboard is not a thread of the machine: blocking_get_next_char  *)
(* returns when a key is typed or the host's read fails, and nothing makes *)
(* either happen.                                                          *)
(***************************************************************************)
MainPositions == {"new", "run_cpu", "returned"}

CpuPositions == {"off", "check", "exec", "poll", "unbind", "done", "panicked"}

TtyPositions == {"off", "sleep", "mapped", "check", "print", "receive", "stop", "join",
                 "unmap", "finished"}

StdinPositions == {"off", "check", "read", "done"}

\* Pdp11::run can go on: it has not started, or both joins can return
MainReady ==
    \/ main_pc = "new"
    \/ main_pc = "run_cpu" /\ cpu_pc = "done" /\ tty_pc = "finished"

\* CPU::run can go on: it has been called and has not returned
CpuReady ==
    \/ main_pc = "run_cpu" /\ cpu_pc = "off"
    \/ cpu_pc \in {"check", "poll", "unbind"}
    \/ cpu_pc = "exec" /\ (cpu.waiting \/ cpu_steps < MaxInstructions)

\* the console thread can go on: it is not waiting in stdin_loop.join()
TtyReady ==
    \/ tty_pc \in {"sleep", "mapped", "check", "print", "receive", "stop", "unmap"}
    \/ tty_pc = "join" /\ stdin_pc = "done"

\* the keyboard thread can go on: it is at its test of the active flag
StdinReady == stdin_pc = "check"

MainTurn == MainReady /\ main_pc' \in MainPositions

CpuTurn == CpuReady /\ cpu_pc' \in CpuPositions

TtyTurn == TtyReady /\ tty_pc' \in TtyPositions

StdinTurn == StdinReady /\ stdin_pc' \in StdinPositions

SpecSysFair ==
    /\ SpecSys
    /\ WF_main_pc(MainTurn)
    /\ WF_cpu_pc(CpuTurn)
    /\ WF_tty_pc(TtyTurn)
    /\ WF_stdin_pc(StdinTurn)

\* C35: once the CPU has executed HALT, Pdp11::run eventually returns,
\* whether or not another key is typed: the console thread finishes
\* (having unmapped its registers) without waiting for the keyboard thread's
\* host read to return.
C35_ShutdownNeedsNoInput ==
    (tick_instr = "HALT") ~> (main_pc = "returned" /\ tty_pc = "finished")

(***************************************************************************)
(* Claims about the keyboard's bytes, checked under SpecConsole.           *)
(***************************************************************************)
\* RBUF holds a byte that has not been loaded since it was stored
Unread == cells["receiver_buffer"].has_new_data

\* C36: the keyboard queue changes only by a key appended at its end by
\* the keyboard thread, or by the receiver half of a device tick taking
\* its oldest key; such a tick takes one key, stores it in RBUF's low byte
\* as unread, and does so only if RBUF holds no unread byte; RBUF counts as
\* unread from then until the program loads RBUF, and a byte that is
\* unread is not replaced by the device.
C36_KeysReachRbufInOrder ==
    [][/\ receiver_queue' # receiver_queue =>
             \/ /\ stdin_pc = "read"
                /\ \E c \in ConsoleKeys : receiver_queue' = Append(receiver_queue, c)
                /\ UNCHANGED cells
             \/ /\ ReceiveTick
                /\ receiver_queue # <<>>
                /\ receiver_queue' = Tail(receiver_queue)
                /\ ~Unread
                /\ Unread'
                /\ low(cells'["receiver_buffer"].word) = Head(receiver_queue)
       /\ (Unread /\ ~Unread') => ProgAccess("read_word", RECEIVER_BUFFER_ADDRESS)
       /\ (Unread /\ mem_steps' = mem_steps) =>
             cells'["receiver_buffer"] = cells["receiver_buffer"]]_vars

\* two keys were typed; the program loaded the first from RBUF, and the
\* device then stored the second there
C36_Witness ==
    /\ keys = 2
    /\ receiver_queue = <<>>
    /\ mem_op.op = "read_word"
    /\ mem_op.address = RECEIVER_BUFFER_ADDRESS
    /\ mem_op.ret = 65
    /\ Unread
    /\ cells["receiver_buffer"].word = 66

(***************************************************************************)
(* The console with a device thread that keeps ticking: its loop's next    *)
(* step is always taken eventually.  Nothing is assumed of the program or  *)
(* of the keyboard.                                                        *)
(***************************************************************************)
SpecConsoleFair == SpecConsole /\ WF_tty_pc(TtyTurn)

\* the bytes the program stores to XBUF
XbufBytes == {low(s[2]) : s \in {t \in ConsoleStores : t[1] = TRANSMITTER_BUFFER_ADDRESS}}

\* how many times the byte b has been emitted
Emitted(b) == Cardinality({i \in DOMAIN stdout : stdout[i] = b})

\* the program's last access stored b to XBUF, and no tick has taken it
JustStored(b) ==
    /\ mem_op.op = "write_word"
    /\ mem_op.address = TRANSMITTER_BUFFER_ADDRESS
    /\ low(mem_op.value) = b
    /\ cells["transmitter_buffer"].has_new_data

\* C37: a byte b the program stores to XBUF is emitted after the store
\* (the number of b's emitted grows), whatever the program does next; the
\* host sink changes only on the transmitter half of a tick, by the low
\* byte of XBUF, which is then no longer pending, so that no store is
\* emitted twice.
C37_EveryByteEmittedOnce ==
    /\ \A b \in XbufBytes : \A n \in 0..MaxProgOps :
          (JustStored(b) /\ Emitted(b) = n) ~> (Emitted(b) > n)
    /\ [][stdout' # stdout =>
             /\ PrintTick
             /\ cells["transmitter_buffer"].has_new_data
             /\ ~cells'["transmitter_buffer"].has_new_data
             /\ stdout' = Append(stdout, low(cells["transmitter_buffer"].word))]_vars

(***************************************************************************)
(* Claims about the start-up of the threads, checked under SpecSys.        *)
(***************************************************************************)
\* this step is the console thread's test of the running flag finding it
\* clear: the thread leaves its poll loop
TtyLeavesLoop == tty_pc = "check" /\ tty_pc' = "stop"

\* C38: the console thread leaves its poll loop only after the CPU has
\* executed HALT: however the start of CPU::run and the start of
\* Dl11Tty::run interleave, the thread's test of the running flag finds it
\* set unless the program has halted.
C38_ConsoleServedUntilHalt ==
    [][TtyLeavesLoop => tick_instr = "HALT"]_vars

(***************************************************************************)
(* The threads' use of the mutexes.  An operation is written as the lock() *)
(* calls and guard drops of its code, in order; a lock() call waits while  *)
(* another thread (or the caller itself) holds the mutex.  The CPU thread, *)
(* the console thread and the keyboard thread each run their operations    *)
(* one after the other, in any interleaving.                               *)
(***************************************************************************)
Lock(mutex) == <<[call |-> "lock", mutex |-> mutex]>>

Drop(mutex) == <<[call |-> "drop", mutex |-> mutex]>>

\* a guard that is a temporary: locked and dropped within one statement
Hold(mutex) == Lock(mutex) \o Drop(mutex)

\* a guard bound to a variable: body runs while it is alive
Under(mutex, body) == Lock(mutex) \o body \o Drop(mutex)

\* Memory::read_word and Memory::write_word on an address bound to cell;
\* the caller holds the memory lock.  write_word reaches the cell in its
\* first write_byte and again at its end
Memory_read_word_locks(cell) == Hold(cell)

Memory_write_word_locks(cell) == Hold(cell) \o Hold(cell)

\* Memory::unmap_word: read_word, then a write_word that finds no cell
unmap_word_locks(cell) == Memory_read_word_locks(cell)

map_registers_locks == Under("memory", <<>>)

unmap_registers_locks ==
    Under("memory", unmap_word_locks("receiver_status")
                    \o unmap_word_locks("receiver_buffer")
                    \o unmap_word_locks("transmitter_status")
                    \o unmap_word_locks("transmitter_buffer"))

set_printing_locks == Under("transmitter_status", <<>>)

print_from_buffer_locks == Under("transmitter_buffer", <<>>)

is_empty_transmitter_locks == Hold("transmitter_buffer")

\* a plausible slip: the status guard is kept while the bus is locked
notify_ready_to_print_guard_kept(enabled) ==
    Under("transmitter_status", IF enabled THEN Hold("bus") ELSE <<>>)

\* notify_ready_to_print: the status guard is a temporary of the if's
\* condition, dropped before the block locks the bus
notify_ready_to_print_locks(enabled) ==
    Hold("transmitter_status") \o (IF enabled THEN Hold("bus") ELSE <<>>)

\* try_print: nothing to send, or a byte sent with or without an interrupt
try_print_locks ==
    {is_empty_transmitter_locks}
    \cup {is_empty_transmitter_locks \o set_printing_locks \o print_from_buffer_locks
          \o set_printing_locks \o notify_ready_to_print_locks(enabled) :
             enabled \in BOOLEAN}

has_received_data_locks == Hold("receiver_buffer")

set_recived_locks == Under("receiver_status", <<>>)

should_notify_received_locks == Hold("receiver_status")

notify_received_locks == Hold("bus")

\* try_receive: a byte is waiting (announced or not), or the next key, if
\* any, is stored
try_receive_locks ==
    {has_received_data_locks \o should_notify_received_locks \o set_recived_locks \o n :
        n \in {<<>>, notify_received_locks}}
    \cup {has_received_data_locks \o set_recived_locks \o w :
             w \in {<<>>, Hold("receiver_buffer")}}

\* Dl11Tty::run up to its loop; the thread's closure holds the Dl11Tty
run_start_locks ==
    Lock("dl11tty") \o map_registers_locks \o set_printing_locks \o Hold("thread_active")

\* an iteration of the loop
run_tick_locks ==
    {Hold("running") \o p \o r : p \in try_print_locks, r \in try_receive_locks}

\* the loop's last test and what follows it
run_end_locks ==
    Hold("running") \o Hold("thread_active") \o unmap_registers_locks \o Drop("dl11tty")

\* stdin_loop: the test of the active flag; push takes no mutex
stdin_loop_locks == Hold("thread_active")

\* an instruction: the memory lock for its body, in which it reaches
\* nothing mapped, or loads or stores a mapped word, and then sets the
\* flags in the status cell; HALT clears the running flag
instruction_locks ==
    {Under("memory", body \o Hold("status")) :
        body \in {<<>>} \cup {Memory_read_word_locks(c) : c \in CellLocks}
                 \cup {Memory_write_word_locks(c) : c \in CellLocks}}
    \cup {Under("memory", Hold("running"))}

\* the poll of the bus, and the trap sequence of an accepted vector
poll_locks == {Hold("bus"), Hold("bus") \o Under("memory", Hold("status") \o Hold("status"))}

\* CPU::run: the start, the loop's test, and the end
cpu_run_locks ==
    {Hold("running") \o Under("memory", Hold("status")),
     Hold("running"),
     Under("memory", unmap_word_locks("status"))}

\* the operations a thread can start next
Operations(t) ==
    IF t = "cpu" THEN instruction_locks \cup poll_locks \cup cpu_run_locks
    ELSE IF t = "stdin" THEN {stdin_loop_locks}
    ELSE IF held[t] = <<>> THEN {run_start_locks}
    ELSE run_tick_locks \cup {run_end_locks}

\* the thread t holds the mutex
Holds(t, mutex) == \E i \in DOMAIN held[t] : held[t][i] = mutex

\* the mutex the thread t is about to lock, if any
NextLock(t) ==
    IF script[t] # <<>> /\ Head(script[t]).call = "lock"
    THEN {Head(script[t]).mutex} ELSE {}

\* the thread t starts an operation
Begin(t) ==
    /\ script[t] = <<>>
    /\ \E s \in Operations(t) : script' = [script EXCEPT ![t] = s]
    /\ UNCHANGED held

\* the thread t's lock() returns: no thread holds the mutex
Acquire(t) ==
    /\ NextLock(t) # {}
    /\ \A u \in Threads : \A l \in NextLock(t) : ~Holds(u, l)
    /\ held' = [held EXCEPT ![t] = Append(@, Head(script[t]).mutex)]
    /\ script' = [script EXCEPT ![t] = Tail(@)]

\* the thread t drops a guard
Release(t) ==
    /\ script[t] # <<>>
    /\ Head(script[t]).call = "drop"
    /\ held' = [held EXCEPT ![t] = SelectSeq(@, LAMBDA l : l # Head(script[t]).mutex)]
    /\ script' = [script EXCEPT ![t] = Tail(@)]

LocksNext ==
    /\ UNCHANGED <<bus_vars, mem_vars, cpu_vars, thread_vars, announced>>
    /\ \/ \E t \in Threads : Begin(t)
       \/ \E t \in Threads : Acquire(t)
       \/ \E t \in Threads : Release(t)

SpecLocks == BusInit /\ [][LocksNext]_vars

(***************************************************************************)
(* Claims about the mutexes, checked under SpecLocks.                      *)
(***************************************************************************)
\* the mutex is one of those the lock order is about
IsOrderedLock(mutex) == mutex \in {"memory", "bus"} \cup CellLocks

\* the thread t waits for a mutex the thread u holds
WaitsFor(t, u) == \E l \in NextLock(t) : Holds(u, l)

\* C39: of the memory lock, the cell locks and the bus lock a thread holds
\* at most two at a time, and then the memory lock taken first and a cell
\* lock second; a thread about to lock the bus or the memory holds no cell
\* lock, and a thread about to lock the memory does not hold the bus; no
\* set of threads is such that each waits for a mutex (of any kind) held
\* by a thread of the set.
C39_LocksNeverDeadlock ==
    /\ \A t \in Threads :
          /\ Len(SelectSeq(held[t], IsOrderedLock)) <= 2
          /\ Len(SelectSeq(held[t], IsOrderedLock)) = 2 =>
                /\ SelectSeq(held[t], IsOrderedLock)[1] = "memory"
                /\ SelectSeq(held[t], IsOrderedLock)[2] \in CellLocks
          /\ \A l \in NextLock(t) :
                /\ l \in {"bus", "memory"} => \A c \in CellLocks : ~Holds(t, c)
                /\ l = "memory" => ~Holds(t, "bus")
    /\ \A S \in (SUBSET Threads) \ {{}} :
          \E t \in S : \A u \in S : ~WaitsFor(t, u)

\* the CPU holds the memory lock and, inside it, the lock of XCSR; the
\* console thread waits for XCSR's lock and the keyboard thread tests its
\* flag
C39_Witness ==
    /\ held["cpu"] = <<"memory", "transmitter_status">>
    /\ held["tty"] = <<"dl11tty">>
    /\ NextLock("tty") = {"transmitter_status"}
    /\ held["stdin"] = <<"thread_active">>

=============================================================================
